---- MODULE Spec2Model ----
(***************************************************************************)
(* Model of the FSNB matcher's feedback pipeline and embedding gateway.     *)
(*                                                                         *)
(*  - feedback_sessions / feedback_rows / feedback_labels: the committed    *)
(*    database tables written by review_create and persist_commit;          *)
(*  - req: the in-flight HTTP requests of the commit endpoint, each inside  *)
(*    one `async with session.begin()` transaction;                         *)
(*  - the accelerator gate of model_giga.encode (lru_cache'd semaphore);    *)
(*  - the catalog side: ingestion into the items table, the rebuild of the  *)
(*    vector index, batched vector search, match and metadata lookup;       *)
(*  - page: the review pages, the normalisation of a commit body, the       *)
(*    works-catalog parser, the exported sheet of a commit and the commit   *)
(*    path that creates its own session.                                    *)
(***************************************************************************)
EXTENDS Integers, Sequences, FiniteSets, TLC

VARIABLES
    feedback_sessions,  \* Seq of [status]; index = FeedbackSession.id
    feedback_rows,      \* Seq of [session_id, caption, is_trusted, created_by]; index = FeedbackRow.id
    feedback_labels,    \* Seq of [row_id, label, selected_item_id, is_trusted, created_by], in id order
    req,                \* [Reqs -> request record]: position and transaction write-set of each commit request
    sem_cache,          \* lru_cache of _gpu_sem: <<>> when empty, <<s>> when it holds semaphore s
    sem_permits,        \* Seq of Nat: free permits of every Semaphore object created so far
    caller,             \* [Callers -> [pc, sem, last]]: position of each thread inside encode(), and how its last call ended
    gpu_slots,          \* settings.fsnb.gpu_slots
    feedback_candidates,\* Seq of [row_id, item_id, model_name, rank], in id order
    review,             \* outcome of the last POST /review/create: [result, session_id, texts]
    catalog,            \* Seq of <<code, name, unit, type>>: what the XML parser yields for the catalog directory
    items,              \* Seq of [code, name, unit, type]; index = Item.id
    ingest,             \* position of bulk_insert_items: [pc, pos, buf, inserted, runs]
    qdrant,             \* the collection: set of points [id, vector, name]
    indexer,            \* position of init_all_collections: [pc, pos, ids_batch, texts_batch, done, result]
    search,             \* position of _qdrant_search: [pc, vectors, start, all_results, requests]
    matched,            \* outcome of the last match_items: [result, texts, rows]
    meta,               \* outcome of the last fetch_items_meta_by_ids: [called, item_ids, out, queries]
    page                \* what the last page, parser, export or session-creating commit returned: [op, ...]

dbvars == <<feedback_sessions, feedback_rows, feedback_labels>>
gatevars == <<sem_cache, sem_permits, caller, gpu_slots>>
reviewvars == <<feedback_candidates, review>>
catalogvars == <<catalog, items, ingest>>
indexvars == <<qdrant, indexer>>
matchvars == <<search, matched, meta>>
servicevars == <<reviewvars, catalogvars, indexvars, matchvars, page>>
vars == <<feedback_sessions, feedback_rows, feedback_labels, req,
          sem_cache, sem_permits, caller, gpu_slots,
          feedback_candidates, review, catalog, items, ingest,
          qdrant, indexer, search, matched, meta, page>>

----------------------------------------------------------------------------
(* Bounds of the model *)

MaxRows == 2          \* captions per review creation
MaxPayloadRows == 2   \* rows in one commit payload
NumCallers == 2       \* threads calling encode()
MaxGpuSlots == 2      \* largest configured gpu_slots
MaxCatalog == 3       \* tuples the parser yields for the catalog directory
chunk_size == 2       \* rows per INSERT of bulk_insert_items (1000 in ingest.py)
MaxRuns == 2          \* ingestion runs over the same catalog
MaxItems == 3         \* items in the table when the index is rebuilt
giga_index_bs == 2    \* settings.fsnb.giga_index_bs, the rebuild's batch size (8 in config.py)
MaxVectors == 130     \* query vectors of one _qdrant_search call
MaxIds == 3           \* ids in one fetch_items_meta_by_ids call
MaxEvents == 5        \* NameGroup and Work events of one works catalog

----------------------------------------------------------------------------
(* Optional values: None is <<>>, a present value v is <<v>> *)

None == <<>>
Some(v) == <<v>>
IsNone(o) == o = <<>>
Val(o) == o[1]

Max(S) == CHOOSE x \in S : \A y \in S : y <= x

----------------------------------------------------------------------------
(* Users and their Permission rows *)

NoPerm == [exists |-> FALSE, is_superadmin |-> FALSE, is_admin |-> FALSE,
           is_staff |-> FALSE, is_updater |-> FALSE, is_reader |-> FALSE,
           is_user |-> FALSE]

PermOf(flag) == [NoPerm EXCEPT !.exists = TRUE, ![flag] = TRUE]

\* One user per kind of Permission row, and one user with no Permission row.
Users == {"nobody", "user", "reader", "updater", "staff", "admin", "superadmin"}

Permission(u) ==
    CASE u = "nobody"     -> NoPerm
      [] u = "user"       -> PermOf("is_user")
      [] u = "reader"     -> PermOf("is_reader")
      [] u = "updater"    -> PermOf("is_updater")
      [] u = "staff"      -> PermOf("is_staff")
      [] u = "admin"      -> PermOf("is_admin")
      [] u = "superadmin" -> PermOf("is_superadmin")

\* A plausible slip: the updater role forgotten in the editor test.
is_actor_editor_no_updater(u) ==
    LET perm == Permission(u) IN
    IF ~perm.exists THEN FALSE
    ELSE perm.is_superadmin \/ perm.is_admin \/ perm.is_staff

\* access.py: editor = is_superadmin | is_admin | is_staff | is_updater
is_actor_editor(u) ==
    LET perm == Permission(u) IN
    IF ~perm.exists THEN FALSE
    ELSE perm.is_superadmin \/ perm.is_admin \/ perm.is_staff \/ perm.is_updater

----------------------------------------------------------------------------
(* Text helpers.  Strings are opaque to TLC, so str.strip() and str.lower() *)
(* are given by their graph on the strings the model uses.                  *)

Strip(s) ==
    CASE s = " gold " -> "gold"
      [] s = "  "     -> ""
      [] OTHER        -> s

Lower(s) ==
    CASE s = "GOLD" -> "gold"
      [] OTHER      -> s

\* enums.py: FeedbackLabel
FeedbackLabelEnum == {"gold", "negative", "skip", "ambiguous", "none_match"}

\* feedback_label.py: FeedbackLabel.normalize_label (defined, never called)
normalize_label(value) ==
    LET v == Lower(Strip(value)) IN
    IF v \in FeedbackLabelEnum THEN v ELSE "skip"

----------------------------------------------------------------------------
(* ReviewService.normalize_commit_rows *)

\* rows: Seq of [row_idx : Opt Int, label : STRING, selected_item_id : Opt Int]
normalize_commit_rows(rows) ==
    [i \in 1..Len(rows) |->
        [row_idx          |-> IF IsNone(rows[i].row_idx) THEN i - 1 ELSE Val(rows[i].row_idx),
         label            |-> IF Strip(rows[i].label) = "" THEN "gold" ELSE Strip(rows[i].label),
         selected_item_id |-> rows[i].selected_item_id]]

----------------------------------------------------------------------------
(* FeedbackPersistService._build_row_id_by_idx *)

Front(s) == SubSeq(s, 1, Len(s) - 1)
Last(s) == s[Len(s)]

\* Python's sorted() is stable: rows with equal row_idx keep their payload order.
RECURSIVE InsertByRowIdx(_, _)
InsertByRowIdx(r, s) ==
    IF s = <<>> THEN <<r>>
    ELSE IF r.row_idx < Last(s).row_idx
         THEN Append(InsertByRowIdx(r, Front(s)), Last(s))
         ELSE Append(s, r)

RECURSIVE SortedByRowIdx(_)
SortedByRowIdx(rows) ==
    IF rows = <<>> THEN <<>>
    ELSE InsertByRowIdx(Last(rows), SortedByRowIdx(Front(rows)))

\* The mapping built over the payload in the order it was sent.
build_row_id_by_idx_unsorted(db_row_ids, commit_rows) ==
    LET m == IF Len(db_row_ids) < Len(commit_rows)
             THEN Len(db_row_ids) ELSE Len(commit_rows)
        keys == {commit_rows[i].row_idx : i \in 1..m}
    IN  [k \in keys |->
            db_row_ids[Max({i \in 1..m : commit_rows[i].row_idx = k})]]

\* db_row_ids: the session's FeedbackRow ids in ascending order.
\* The i-th DB row is bound to the row_idx of the i-th payload row in row_idx
\* order; the loop stops at the shorter of the two lists, and a repeated
\* row_idx keeps the last DB row bound to it.
build_row_id_by_idx(db_row_ids, commit_rows) ==
    LET commit_rows_sorted == SortedByRowIdx(commit_rows)
        m == IF Len(db_row_ids) < Len(commit_rows_sorted)
             THEN Len(db_row_ids) ELSE Len(commit_rows_sorted)
        keys == {commit_rows_sorted[i].row_idx : i \in 1..m}
    IN  [k \in keys |->
            db_row_ids[Max({i \in 1..m : commit_rows_sorted[i].row_idx = k})]]

----------------------------------------------------------------------------
(* FeedbackLabelRepository.bulk_create_from_commit *)

\* row_idx may be 0-based or 1-based: both keys are tried.
RowIdFor(row_id_by_idx, row_idx) ==
    IF row_idx \in DOMAIN row_id_by_idx THEN Some(row_id_by_idx[row_idx])
    ELSE IF row_idx + 1 \in DOMAIN row_id_by_idx THEN Some(row_id_by_idx[row_idx + 1])
    ELSE None

\* The downgrade of an unselected gold left out.
StoredLabelNoDowngrade(r) ==
    IF Strip(r.label) = "" THEN "gold" ELSE Strip(r.label)

\* label = strip(label) or "gold"; gold without a selected item becomes ambiguous.
StoredLabel(r) ==
    LET label == IF Strip(r.label) = "" THEN "gold" ELSE Strip(r.label)
    IN  IF label = "gold" /\ IsNone(r.selected_item_id) THEN "ambiguous" ELSE label

LabelObj(r, row_id, created_by, is_trusted) ==
    [row_id           |-> row_id,
     label            |-> StoredLabel(r),
     selected_item_id |-> r.selected_item_id,
     created_by       |-> created_by,
     is_trusted       |-> is_trusted]

\* One FeedbackLabel per payload row whose row_idx (or row_idx + 1) is a key
\* of the mapping, in payload order; the other rows are skipped.
RECURSIVE bulk_create_from_commit(_, _, _, _)
bulk_create_from_commit(rows, row_id_by_idx, created_by, is_trusted) ==
    IF rows = <<>> THEN <<>>
    ELSE LET r == Last(rows)
             row_id == RowIdFor(row_id_by_idx, r.row_idx)
             objs == bulk_create_from_commit(Front(rows), row_id_by_idx, created_by, is_trusted)
         IN  IF IsNone(row_id) THEN objs
             ELSE Append(objs, LabelObj(r, Val(row_id), created_by, is_trusted))

----------------------------------------------------------------------------
(* The database as one transaction sees it, and the commit requests *)

Reqs == {1, 2}

\* select(FeedbackRow).where(session_id == sid).order_by(id.asc())
RECURSIVE RowIdsOfUpTo(_, _, _)
RowIdsOfUpTo(rows, sid, n) ==
    IF n = 0 THEN <<>>
    ELSE IF rows[n].session_id = sid
         THEN Append(RowIdsOfUpTo(rows, sid, n - 1), n)
         ELSE RowIdsOfUpTo(rows, sid, n - 1)

\* The select without its WHERE clause: the rows of every session.
RowIdsOfAnySession(rows, sid) == [i \in 1..Len(rows) |-> i]

RowIdsOf(rows, sid) == RowIdsOfUpTo(rows, sid, Len(rows))

SeqRange(s) == {s[i] : i \in 1..Len(s)}

\* A request that is not running: `result` is the outcome of the last one,
\* `session_id` the session it named, `failed_at` the step that raised.
IdleReq(result, session_id, failed_at) ==
    [pc |-> "idle", failed_at |-> failed_at, session_id |-> session_id, rows |-> <<>>, actor |-> "", is_trusted |-> FALSE,
     row_ids |-> <<>>, row_id_by_idx |-> <<>>,
     deleted |-> {}, updated |-> {}, inserted |-> <<>>, closing |-> FALSE,
     result |-> result]

InTransaction == {"select_rows", "delete_labels", "update_rows",
                  "insert_labels", "close_session", "commit"}

\* Labels and rows another open transaction has written (and so locked).
LockedLabels(r) == UNION {req[o].deleted : o \in Reqs \ {r}}
LockedRows(r) == UNION {req[o].updated : o \in Reqs \ {r}}
LockedSessions(r) == {req[o].session_id : o \in {x \in Reqs \ {r} : req[x].closing}}

\* No review created, no ingestion, rebuild, search, match or lookup running.
IdleReview == [result |-> "none", upstream |-> "none", session_id |-> 0,
               captions |-> <<>>, texts |-> <<>>]
IdleIngest == [pc |-> "idle", pos |-> 0, buf |-> <<>>, inserted |-> 0, runs |-> 0]
IdleIndexer == [pc |-> "idle", stream |-> <<>>, pos |-> 0, ids_batch |-> <<>>,
                texts_batch |-> <<>>, sizes |-> <<>>, done |-> 0, result |-> None]
IdleSearch == [pc |-> "idle", vectors |-> <<>>, start |-> 0, all_results |-> <<>>,
               requests |-> <<>>]
IdleMatch == [result |-> "none", upstream |-> "none", json_items |-> <<>>, texts |-> <<>>,
              searches |-> <<>>, rows |-> <<>>]
IdleMeta == [called |-> FALSE, item_ids |-> <<>>, out |-> <<>>, queries |-> 0]
IdlePage == [op |-> "none"]

\* The feedback tables are empty, no request is in flight, no Semaphore is
\* built yet.
InitFeedback(slots) ==
    /\ feedback_sessions = <<>>
    /\ feedback_rows = <<>>
    /\ feedback_labels = <<>>
    /\ req = [r \in Reqs |-> IdleReq("none", 0, "")]
    /\ sem_cache = None
    /\ sem_permits = <<>>
    /\ caller = [c \in 1..NumCallers |-> [pc |-> "idle", sem |-> 0, last |-> "none"]]
    /\ gpu_slots \in slots
    /\ feedback_candidates = <<>>
    /\ review = IdleReview

\* The catalog side at rest, over the given catalogs, items tables and
\* collections.
InitServices(catalogs, tables, collections) ==
    /\ catalog \in catalogs
    /\ items \in tables
    /\ ingest = IdleIngest
    /\ qdrant \in collections
    /\ indexer = IdleIndexer
    /\ search = IdleSearch
    /\ matched = IdleMatch
    /\ meta = IdleMeta
    /\ page = IdlePage

InitWith(slots) == InitFeedback(slots) /\ InitServices({<<>>}, {<<>>}, {{}})

\* config.py: gpu_slots: int = 1
Init == InitWith({1})

\* Any configured gpu_slots, 0 included
InitGate == InitWith(0..MaxGpuSlots)

----------------------------------------------------------------------------
(* POST /train/review/create *)

\* model_giga.py: the instruction prefix of query mode
INSTRUCT_QUERY == "Instruct: Given a database query, retrieve relevant FSNB entries\nQuery: "

\* encode(): the texts handed to the model; query mode prepends the prefix,
\* document mode passes the text as it is.
encode_texts(texts, is_query) ==
    IF is_query
    THEN [i \in 1..Len(texts) |-> INSTRUCT_QUERY \o texts[i]]
    ELSE texts

\* _encode_impl(): one vector per text, a function of the text the model saw
encode_impl(texts) == [i \in 1..Len(texts) |-> [embedding_of |-> texts[i]]]

\* embed_texts(texts, *, is_query=False): alias of encode()
embed_texts(texts, is_query) == encode_texts(texts, is_query)

\* _embed_captions(captions): embed_texts(captions), is_query left at its default
embed_captions(captions) == embed_texts(captions, FALSE)

\* _safe_int(): a point id is an int or a UUID string; only an int converts
safe_int(raw_id) == IF raw_id.kind = "int" THEN Some(raw_id.value) ELSE None

IntId(n) == [kind |-> "int", value |-> n]
UuidId == [kind |-> "uuid", value |-> 0]

\* Outcome of the embedding call and the vector search of one request:
\* either of them raised, or the search answered one list of points per vector.
UpstreamOk(searches) == [kind |-> "ok", searches |-> searches]
UpstreamError(kind) == [kind |-> kind, searches |-> <<>>]

\* Search errors taken for "no hits".
upstream_raises_embed_only(upstream) == upstream.kind = "embed_error"

\* get_topk_for_captions has no try/except: a failed embedding or search raises
upstream_raises(upstream) == upstream.kind # "ok"

\* ReviewService.get_topk_for_captions: [[{id, score, rank}, ...], ...]
get_topk_for_captions(searches) ==
    [i \in 1..Len(searches) |->
        [k \in 1..Len(searches[i]) |->
            [id |-> safe_int(searches[i][k].id),
             score |-> searches[i][k].score,
             rank |-> k]]]

\* Rows flagged as trusted at creation.
NewRowsTrusted(sid, captions, actor) ==
    [i \in 1..Len(captions) |->
        [session_id |-> sid, caption |-> captions[i],
         is_trusted |-> TRUE, created_by |-> actor]]

\* review_create: one FeedbackRow per item, in input order, is_trusted False
NewRows(sid, captions, actor) ==
    [i \in 1..Len(captions) |->
        [session_id |-> sid, caption |-> captions[i],
         is_trusted |-> FALSE, created_by |-> actor]]

\* review_create: the candidates of one row: every top-K entry with an int id
RECURSIVE RowCandidates(_, _)
RowCandidates(row_id, found) ==
    IF found = <<>> THEN <<>>
    ELSE LET cand == Last(found)
             rest == RowCandidates(row_id, Front(found)) IN
         IF IsNone(cand.id) THEN rest
         ELSE Append(rest, [row_id |-> row_id, item_id |-> Val(cand.id),
                            model_name |-> "giga", rank |-> cand.rank])

\* review_create: for row, found in zip(row_objs, topk)
RECURSIVE NewCandidates(_, _, _)
NewCandidates(first_row_id, n_rows, topk) ==
    LET n == IF n_rows < Len(topk) THEN n_rows ELSE Len(topk) IN
    IF n = 0 THEN <<>>
    ELSE NewCandidates(first_row_id, n - 1, topk)
            \o RowCandidates(first_row_id + n - 1, topk[n])

CandidateKey(c) == <<c.row_id, c.item_id, c.model_name>>

\* The candidate table without its unique constraint.
IntegrityOkForeignKeyOnly(cands, itms) ==
    \A i \in 1..Len(cands) : cands[i].item_id \in 1..Len(itms)

\* feedback_candidates: UNIQUE(row_id, item_id, model_name), item_id -> items.id
IntegrityOk(cands, itms) ==
    /\ \A i, j \in 1..Len(cands) :
          CandidateKey(cands[i]) = CandidateKey(cands[j]) => i = j
    /\ \A i \in 1..Len(cands) : cands[i].item_id \in 1..Len(itms)

\* POST /train/review/create.  The top-K is computed first; then one
\* transaction adds the session, its rows and their candidates.  A constraint
\* violation at the flush rolls the transaction back.
review_create(captions, actor, upstream) ==
    /\ IF captions = <<>>
       THEN /\ review' = [IdleReview EXCEPT !.result = "bad_request"]
            /\ UNCHANGED <<dbvars, feedback_candidates>>
       ELSE IF upstream_raises(upstream)
       THEN /\ review' = [IdleReview EXCEPT !.result = "upstream_error",
                                            !.upstream = upstream.kind,
                                            !.captions = captions,
                                            !.texts = embed_captions(captions)]
            /\ UNCHANGED <<dbvars, feedback_candidates>>
       ELSE LET sid == Len(feedback_sessions) + 1
                topk == get_topk_for_captions(upstream.searches)
                cands == feedback_candidates
                            \o NewCandidates(Len(feedback_rows) + 1, Len(captions), topk)
            IN
            IF IntegrityOk(cands, items)
            THEN /\ feedback_sessions' = Append(feedback_sessions, [status |-> "open"])
                 /\ feedback_rows' = feedback_rows \o NewRows(sid, captions, actor)
                 /\ feedback_candidates' = cands
                 /\ review' = [result |-> "ok", upstream |-> upstream.kind,
                               session_id |-> sid, captions |-> captions,
                               texts |-> embed_captions(captions)]
                 /\ UNCHANGED feedback_labels
            ELSE /\ review' = [IdleReview EXCEPT !.result = "db_error",
                                                 !.upstream = upstream.kind,
                                                 !.captions = captions,
                                                 !.texts = embed_captions(captions)]
                 /\ UNCHANGED <<dbvars, feedback_candidates>>
    /\ UNCHANGED <<req, gatevars, page, catalogvars, indexvars, matchvars>>

----------------------------------------------------------------------------
(* POST /train/review/commit: commit_review_and_export_xlsx + persist_commit *)

\* A status check that lets every session through.
is_closed_never(fb_session) == FALSE

\* str(fb_session.status or "") == "closed"
is_closed(fb_session) == fb_session.status = "closed"

\* The handler up to the status check: is_actor_editor, normalize_commit_rows,
\* session.begin(), session.get(FeedbackSession, session_id).
commit_begin(r, session_id, body_rows, actor) ==
    /\ req[r].pc = "idle"
    /\ IF body_rows = <<>>
       THEN req' = [req EXCEPT ![r] = IdleReq("bad_request", session_id, "")]
       ELSE IF session_id \notin 1..Len(feedback_sessions)
       THEN req' = [req EXCEPT ![r] = IdleReq("not_found", session_id, "")]
       ELSE IF is_closed(feedback_sessions[session_id])
       THEN req' = [req EXCEPT ![r] = IdleReq("already_closed", session_id, "")]
       ELSE req' = [req EXCEPT ![r] =
                [IdleReq("pending", session_id, "") EXCEPT
                    !.pc = "select_rows",
                    !.rows = normalize_commit_rows(body_rows),
                    !.actor = actor,
                    !.is_trusted = is_actor_editor(actor)]]
    /\ UNCHANGED <<dbvars, gatevars, servicevars>>

\* select the session's rows ordered by id; build the row_idx -> row id mapping
commit_select_rows(r) ==
    /\ req[r].pc = "select_rows"
    /\ LET db_row_ids == RowIdsOf(feedback_rows, req[r].session_id) IN
       IF db_row_ids = <<>>
       THEN req' = [req EXCEPT ![r] = IdleReq("no_rows", req[r].session_id, "")]
       ELSE req' = [req EXCEPT ![r].pc = "delete_labels",
                               ![r].row_ids = db_row_ids,
                               ![r].row_id_by_idx = build_row_id_by_idx(db_row_ids, req[r].rows)]
    /\ UNCHANGED <<dbvars, gatevars, servicevars>>

\* delete(FeedbackLabel).where(row_id.in_(row_ids))
commit_delete_labels(r) ==
    /\ req[r].pc = "delete_labels"
    /\ LET target == {i \in 1..Len(feedback_labels) :
                        feedback_labels[i].row_id \in SeqRange(req[r].row_ids)} IN
       /\ target \cap LockedLabels(r) = {}
       /\ req' = [req EXCEPT ![r].pc = "update_rows", ![r].deleted = target]
    /\ UNCHANGED <<dbvars, gatevars, servicevars>>

\* update(FeedbackRow).where(session_id == sid).values(is_trusted, created_by)
commit_update_rows(r) ==
    /\ req[r].pc = "update_rows"
    /\ LET target == SeqRange(RowIdsOf(feedback_rows, req[r].session_id)) IN
       /\ target \cap LockedRows(r) = {}
       /\ req' = [req EXCEPT ![r].pc = "insert_labels", ![r].updated = target]
    /\ UNCHANGED <<dbvars, gatevars, servicevars>>

\* label_repo.bulk_create_from_commit(rows, row_id_by_idx, created_by, is_trusted)
commit_insert_labels(r) ==
    /\ req[r].pc = "insert_labels"
    /\ req' = [req EXCEPT ![r].pc = "close_session",
                          ![r].inserted = bulk_create_from_commit(
                              req[r].rows, req[r].row_id_by_idx,
                              req[r].actor, req[r].is_trusted)]
    /\ UNCHANGED <<dbvars, gatevars, servicevars>>

\* update(FeedbackSession).where(id == sid).values(status="closed")
commit_close_session(r) ==
    /\ req[r].pc = "close_session"
    /\ req[r].session_id \notin LockedSessions(r)
    /\ req' = [req EXCEPT ![r].pc = "commit", ![r].closing = TRUE]
    /\ UNCHANGED <<dbvars, gatevars, servicevars>>

\* The tables after the transaction's writes are applied.
KeptLabels(labels, deleted) ==
    LET keep == {i \in 1..Len(labels) : i \notin deleted}
        \* the n-th kept position, in ascending order
        Nth[n \in 1..Cardinality(keep)] ==
            CHOOSE i \in keep : Cardinality({j \in keep : j < i}) = n - 1
    IN  [n \in 1..Cardinality(keep) |-> labels[Nth[n]]]

LabelsAfter(q) == KeptLabels(feedback_labels, q.deleted) \o q.inserted

\* A label another transaction has locked keeps its identity when the rows
\* before it are deleted: its position moves down.
Shifted(positions, deleted) ==
    {p - Cardinality({d \in deleted : d < p}) : p \in positions}

RowsAfter(q) ==
    [i \in 1..Len(feedback_rows) |->
        IF i \in q.updated
        THEN [feedback_rows[i] EXCEPT !.is_trusted = q.is_trusted, !.created_by = q.actor]
        ELSE feedback_rows[i]]

SessionsAfter(q) ==
    IF q.closing
    THEN [feedback_sessions EXCEPT ![q.session_id].status = "closed"]
    ELSE feedback_sessions

\* A rollback that keeps what was flushed before the failure.
RolledBackKeepsFlushed(q) ==
    <<feedback_sessions, feedback_rows, LabelsAfter(q)>>

\* session.begin().__aexit__ with an exception: nothing of the write-set is kept.
RolledBack(q) ==
    <<feedback_sessions, feedback_rows, feedback_labels>>

\* ReportService.build_result_xlsx: the data rows of the sheet, one per
\* normalised payload row, with the payload's label in the Label column and
\* the code of the selected item when the items table has it.
build_result_xlsx(rows) ==
    [i \in 1..Len(rows) |->
        [Label     |-> rows[i].label,
         FSNB_code |-> IF ~IsNone(rows[i].selected_item_id)
                          /\ Val(rows[i].selected_item_id) \in 1..Len(items)
                       THEN Some(items[Val(rows[i].selected_item_id)].code)
                       ELSE None]]

\* session.begin().__aexit__ without exception: COMMIT; the handler then
\* builds the spreadsheet from the normalised payload and returns it.
commit_commit(r) ==
    /\ req[r].pc = "commit"
    /\ feedback_labels' = LabelsAfter(req[r])
    /\ feedback_rows' = RowsAfter(req[r])
    /\ feedback_sessions' = SessionsAfter(req[r])
    /\ req' = [o \in Reqs |->
                IF o = r THEN IdleReq("ok", req[r].session_id, "")
                ELSE [req[o] EXCEPT !.deleted = Shifted(@, req[r].deleted)]]
    /\ page' = [op |-> "export", session_id |-> req[r].session_id,
                xlsx |-> build_result_xlsx(req[r].rows)]
    /\ UNCHANGED <<gatevars, reviewvars, catalogvars, indexvars, matchvars>>

\* Any statement of the transaction may raise (connection lost, constraint
\* violated): the exception leaves `async with session.begin()`, which rolls back.
commit_fail(r) ==
    /\ req[r].pc \in InTransaction
    /\ feedback_sessions' = RolledBack(req[r])[1]
    /\ feedback_rows' = RolledBack(req[r])[2]
    /\ feedback_labels' = RolledBack(req[r])[3]
    /\ req' = [req EXCEPT ![r] = IdleReq("error", req[r].session_id, req[r].pc)]
    /\ UNCHANGED <<gatevars, servicevars>>

----------------------------------------------------------------------------
(* POST /admin/m/feedback_sessions/{id}/edit *)

\* _require_admin
IsAdmin(u) == Permission(u).exists /\ (Permission(u).is_superadmin \/ Permission(u).is_admin)

\* The generic edit form writes every form field of the registered model;
\* FeedbackSession registers `status` as a form field.
admin_model_edit_post(u, obj_id, status) ==
    /\ IsAdmin(u)
    /\ obj_id \in 1..Len(feedback_sessions)
    /\ obj_id \notin LockedSessions(0)
    /\ feedback_sessions' = [feedback_sessions EXCEPT ![obj_id].status = status]
    /\ UNCHANGED <<feedback_rows, feedback_labels, req, gatevars, servicevars>>

----------------------------------------------------------------------------
(* model_giga.encode and its accelerator gate *)

Callers == 1..NumCallers

\* _gpu_sem: slots = int(gpu_slots or 1); Semaphore(max(1, slots))
Permits(slots_setting) ==
    LET slots == IF slots_setting = 0 THEN 1 ELSE slots_setting
    IN  IF slots < 1 THEN 1 ELSE slots

\* encode() reaches `sem = _gpu_sem()`.  functools.lru_cache looks the key up
\* first: on a hit the cached Semaphore is returned, on a miss the body runs
\* outside any lock.
encode_call(c) ==
    /\ caller[c].pc = "idle"
    /\ IF IsNone(sem_cache)
       THEN caller' = [caller EXCEPT ![c].pc = "creating"]
       ELSE caller' = [caller EXCEPT ![c].pc = "acquire", ![c].sem = Val(sem_cache)]
    /\ UNCHANGED <<dbvars, req, sem_cache, sem_permits, gpu_slots, servicevars>>

\* The body of _gpu_sem returns a new Semaphore.  lru_cache stores it unless
\* the key was added meanwhile by another thread; either way the caller gets
\* the object its own call built.
gpu_sem_create(c) ==
    /\ caller[c].pc = "creating"
    /\ LET s == Len(sem_permits) + 1 IN
       /\ sem_permits' = Append(sem_permits, Permits(gpu_slots))
       /\ sem_cache' = IF IsNone(sem_cache) THEN Some(s) ELSE sem_cache
       /\ caller' = [caller EXCEPT ![c].pc = "acquire", ![c].sem = s]
    /\ UNCHANGED <<dbvars, req, gpu_slots, servicevars>>

\* sem.acquire(): blocks while the semaphore has no free permit
sem_acquire(c) ==
    /\ caller[c].pc = "acquire"
    /\ sem_permits[caller[c].sem] > 0
    /\ sem_permits' = [sem_permits EXCEPT ![caller[c].sem] = @ - 1]
    /\ caller' = [caller EXCEPT ![c].pc = "running"]
    /\ UNCHANGED <<dbvars, req, sem_cache, gpu_slots, servicevars>>

\* A raise that skips the release (no try/finally).
PermitsAfterRaiseNoFinally(s) == sem_permits

\* `finally: sem.release()` after _encode_impl raised
PermitsAfterRaise(s) == [sem_permits EXCEPT ![s] = @ + 1]

\* `finally: sem.release()` after _encode_impl returned
PermitsAfterReturn(s) == [sem_permits EXCEPT ![s] = @ + 1]

encode_return(c) ==
    /\ caller[c].pc = "running"
    /\ sem_permits' = PermitsAfterReturn(caller[c].sem)
    /\ caller' = [caller EXCEPT ![c].pc = "idle", ![c].sem = 0, ![c].last = "returned"]
    /\ UNCHANGED <<dbvars, req, sem_cache, gpu_slots, servicevars>>

encode_raise(c) ==
    /\ caller[c].pc = "running"
    /\ sem_permits' = PermitsAfterRaise(caller[c].sem)
    /\ caller' = [caller EXCEPT ![c].pc = "idle", ![c].sem = 0, ![c].last = "raised"]
    /\ UNCHANGED <<dbvars, req, sem_cache, gpu_slots, servicevars>>

----------------------------------------------------------------------------
(* Ingestion: fsnb_xml_parser -> ItemRepository.bulk_insert_items -> items *)

ItemOf(row) == [code |-> row[1], name |-> row[2], unit |-> row[3], type |-> row[4]]

HasCode(itms, code) == \E i \in 1..Len(itms) : itms[i].code = code

\* A plain INSERT that adds the row whatever the table holds.
OnConflictAppend(itms, row) == Append(itms, ItemOf(row))

\* ON CONFLICT (code) DO UPDATE: the stored item takes the new fields.
OnConflictDoUpdate(itms, row) ==
    IF HasCode(itms, row[1])
    THEN [i \in 1..Len(itms) |-> IF itms[i].code = row[1] THEN ItemOf(row) ELSE itms[i]]
    ELSE Append(itms, ItemOf(row))

\* ON CONFLICT (code) DO NOTHING, one proposed row: skipped when the code is
\* in the table (or was inserted earlier by the same statement)
OnConflictDoNothing(itms, row) ==
    IF HasCode(itms, row[1]) THEN itms ELSE Append(itms, ItemOf(row))

\* _flush: one INSERT ... VALUES (rows) ON CONFLICT (code) DO NOTHING + commit
RECURSIVE flush(_, _)
flush(itms, rows) ==
    IF rows = <<>> THEN itms
    ELSE OnConflictDoNothing(flush(itms, Front(rows)), Last(rows))

\* The chunk bulk_insert_items flushes next: chunk_size rows, or the tail
NextChunk(rows, pos) ==
    SubSeq(rows, pos + 1, IF pos + chunk_size <= Len(rows) THEN pos + chunk_size ELSE Len(rows))

\* ingest_to_postgres: a run starts reading the catalog from its first tuple
ingest_to_postgres ==
    /\ ingest.pc \in {"idle", "done"}
    /\ ingest.runs < MaxRuns
    /\ ingest' = [pc |-> "reading", pos |-> 0, buf |-> <<>>, inserted |-> 0,
                  runs |-> ingest.runs + 1]
    /\ UNCHANGED <<dbvars, req, gatevars, page, reviewvars, catalog, items, indexvars, matchvars>>

\* bulk_insert_items: the buffer fills up to chunk_size rows (or to the end
\* of the stream) and is flushed and committed
bulk_insert_items ==
    /\ ingest.pc = "reading"
    /\ ingest.pos < Len(catalog)
    /\ LET buf == NextChunk(catalog, ingest.pos) IN
       /\ items' = flush(items, buf)
       /\ ingest' = [ingest EXCEPT !.pos = ingest.pos + Len(buf),
                                   !.buf = buf,
                                   !.inserted = ingest.inserted + Len(buf)]
    /\ UNCHANGED <<dbvars, req, gatevars, page, reviewvars, catalog, indexvars, matchvars>>

\* bulk_insert_items returns once the stream is exhausted
ingest_done ==
    /\ ingest.pc = "reading"
    /\ ingest.pos = Len(catalog)
    /\ ingest' = [ingest EXCEPT !.pc = "done", !.buf = <<>>]
    /\ UNCHANGED <<dbvars, req, gatevars, page, reviewvars, catalog, items, indexvars, matchvars>>

\* bulk_upsert_dicts: one INSERT of all rows, ON CONFLICT (code) DO NOTHING
bulk_upsert_dicts(rows) ==
    /\ rows # <<>>
    /\ items' = flush(items, rows)
    /\ UNCHANGED <<dbvars, req, gatevars, page, reviewvars, catalog, ingest, indexvars, matchvars>>

----------------------------------------------------------------------------
(* Index rebuild: init_all_collections *)

\* def encode(texts, *, is_query, batch_size=None): one positional parameter
encode_positional_params == 1

\* model_giga.encode(texts_batch, False, len(texts_batch)): three positional arguments
index_encode_args == 3

\* A positional Python call to a function none of whose positional parameters
\* has a default binds when it passes exactly that many arguments; otherwise
\* it raises TypeError.
call_binds(n_args, n_params) == n_args = n_params

\* PointStruct(id=pid, vector=vec, payload={"name": text})
PointStruct(pid, vec, name) == [id |-> IntId(pid), vector |-> vec, name |-> name]

\* client.upsert: a point replaces the stored point of the same id
upsert(collection, points) ==
    {p \in collection : \A q \in points : q.id # p.id} \cup points

\* The next batch of the item stream: giga_index_bs items, or the tail
NextBatch(stream, pos) ==
    IF pos + giga_index_bs <= Len(stream) THEN giga_index_bs ELSE Len(stream) - pos

\* recreate_collection empties the collection; then the items are streamed
\* in id order
init_all_collections ==
    /\ indexer.pc \in {"idle", "done", "raised"}
    /\ qdrant' = {}
    /\ indexer' = [IdleIndexer EXCEPT !.pc = "streaming", !.stream = items]
    /\ UNCHANGED <<dbvars, req, gatevars, page, reviewvars, catalogvars, matchvars>>

\* A full batch, or the tail after the stream: encode the names, then upsert
\* one point per item.  The encode call is made with positional arguments.
index_batch ==
    /\ indexer.pc = "streaming"
    /\ indexer.pos < Len(indexer.stream)
    /\ LET n == NextBatch(indexer.stream, indexer.pos)
           ids_batch == [k \in 1..n |-> indexer.pos + k]
           texts_batch == [k \in 1..n |-> indexer.stream[indexer.pos + k].name]
       IN
       IF ~call_binds(index_encode_args, encode_positional_params)
       THEN /\ indexer' = [indexer EXCEPT !.pc = "raised",
                                          !.ids_batch = ids_batch,
                                          !.texts_batch = texts_batch]
            /\ UNCHANGED qdrant
       ELSE LET vectors == encode_impl(encode_texts(texts_batch, FALSE))
                points == {PointStruct(ids_batch[k], vectors[k], texts_batch[k]) : k \in 1..n}
            IN
            /\ qdrant' = upsert(qdrant, points)
            /\ indexer' = [indexer EXCEPT !.pos = indexer.pos + n,
                                          !.ids_batch = <<>>,
                                          !.texts_batch = <<>>,
                                          !.sizes = Append(indexer.sizes, n),
                                          !.done = indexer.done + n]
    /\ UNCHANGED <<dbvars, req, gatevars, page, reviewvars, catalogvars, matchvars>>

\* The stream is exhausted and no tail is left: return the count
index_done ==
    /\ indexer.pc = "streaming"
    /\ indexer.pos = Len(indexer.stream)
    /\ indexer' = [indexer EXCEPT !.pc = "done", !.result = Some(indexer.done)]
    /\ UNCHANGED <<dbvars, req, gatevars, page, reviewvars, catalogvars, qdrant, matchvars>>

----------------------------------------------------------------------------
(* Batched vector search: _qdrant_search *)

\* matcher_service.py: batch_size = 64
batch_size == 64

\* A chunk one vector too long.
QueryChunkOffByOne(vectors, start) ==
    SubSeq(vectors, start + 1,
           IF start + batch_size + 1 <= Len(vectors) THEN start + batch_size + 1 ELSE Len(vectors))

\* chunk = vectors[start : start + batch_size]
QueryChunk(vectors, start) ==
    SubSeq(vectors, start + 1,
           IF start + batch_size <= Len(vectors) THEN start + batch_size ELSE Len(vectors))

\* client.query_batch_points: one response per request, in request order;
\* answer[v] is what the collection holds nearest to vector v
query_batch_points(chunk, answer) == [k \in 1..Len(chunk) |-> answer[chunk[k]]]

\* _sync_query: for start in range(0, len(vectors), batch_size): extend
RECURSIVE qdrant_search_from(_, _, _)
qdrant_search_from(vectors, answer, start) ==
    IF start >= Len(vectors) THEN <<>>
    ELSE query_batch_points(QueryChunk(vectors, start), answer)
            \o qdrant_search_from(vectors, answer, start + batch_size)

qdrant_search(vectors, answer) == qdrant_search_from(vectors, answer, 0)

\* The answer of the collection used to tell the result lists apart: the
\* list for vector v holds the point v.
SearchAnswer == [v \in 1..(MaxVectors + 1) |-> <<[id |-> IntId(v), score |-> 90]>>]

\* _qdrant_search is called with n vectors
qdrant_search_call(n) ==
    /\ search.pc \in {"idle", "done"}
    /\ search' = [IdleSearch EXCEPT !.pc = "querying", !.vectors = [i \in 1..n |-> i]]
    /\ UNCHANGED <<dbvars, req, gatevars, page, reviewvars, catalogvars, indexvars, matched, meta>>

\* One pass of the loop: one network request for the chunk
qdrant_query_batch ==
    /\ search.pc = "querying"
    /\ search.start < Len(search.vectors)
    /\ LET chunk == QueryChunk(search.vectors, search.start) IN
       search' = [search EXCEPT
                    !.start = search.start + batch_size,
                    !.requests = Append(search.requests, Len(chunk)),
                    !.all_results = search.all_results \o query_batch_points(chunk, SearchAnswer)]
    /\ UNCHANGED <<dbvars, req, gatevars, page, reviewvars, catalogvars, indexvars, matched, meta>>

\* The loop is over: return all_results
qdrant_search_return ==
    /\ search.pc = "querying"
    /\ search.start >= Len(search.vectors)
    /\ search' = [search EXCEPT !.pc = "done"]
    /\ UNCHANGED <<dbvars, req, gatevars, page, reviewvars, catalogvars, indexvars, matched, meta>>

----------------------------------------------------------------------------
(* match_items *)

\* str(i.get("Caption", "") or "")
caption_of(item) == IF IsNone(item.Caption) THEN "" ELSE Val(item.Caption)

\* ItemRepository.fetch_item_name_unit_code_by_id: None when no Item has the id
fetch_item_name_unit_code_by_id(itms, item_id) ==
    IF item_id \in 1..Len(itms)
    THEN Some([name |-> itms[item_id].name, unit |-> itms[item_id].unit,
               code |-> itms[item_id].code])
    ELSE None

\* async def fetch_item_name_unit_code_by_id(self, session, item_id)
fetch_meta_params == 3

\* ItemRepository.fetch_item_name_unit_code_by_id(session, item_id): called on
\* the class, so self is not bound and two arguments are passed
fetch_meta_args == 2

\* {**json_items[idx], "FSNB Name": None, "FSNB code": None, "FSNB Units": None, "conf": score}
NullMatch(item, score) ==
    [item |-> item, name |-> None, code |-> None, unit |-> None, conf |-> score]

\* _fetch_meta_by_item_id is reached for a best hit whose id is an integer;
\* the call it makes raises TypeError when it does not bind
RowRaises(found) ==
    /\ found # <<>>
    /\ ~IsNone(safe_int(found[1].id))
    /\ ~call_binds(fetch_meta_args, fetch_meta_params)

\* The output row of one caption, from the points found for it
MatchRow(item, found, itms) ==
    IF found = <<>> THEN NullMatch(item, 0)
    ELSE LET best == found[1]
             item_id == safe_int(best.id) IN
         IF IsNone(item_id) THEN NullMatch(item, best.score)
         ELSE LET m == fetch_item_name_unit_code_by_id(itms, Val(item_id)) IN
              IF IsNone(m) THEN NullMatch(item, best.score)
              ELSE [item |-> item, name |-> Some(Val(m).name), code |-> Some(Val(m).code),
                    unit |-> Val(m).unit, conf |-> best.score]

\* match_items(json_items): embed the captions, search, one output row per
\* search result; an exception of the metadata call leaves the loop, and no
\* row is returned.  kind tells whether the embedding or the search raised;
\* answer is what the collection answers for each vector.
match_items(json_items, kind, answer) ==
    /\ IF json_items = <<>>
       THEN matched' = [IdleMatch EXCEPT !.result = "ok"]
       ELSE LET captions == [i \in 1..Len(json_items) |-> caption_of(json_items[i])]
                texts == embed_captions(captions)
                vectors == encode_impl(texts)
            IN
            IF kind # "ok"
            THEN matched' = [IdleMatch EXCEPT !.result = "upstream_error",
                                              !.upstream = kind,
                                              !.json_items = json_items,
                                              !.texts = texts]
            ELSE LET searches == qdrant_search(vectors, answer) IN
                 IF \E idx \in 1..Len(searches) : RowRaises(searches[idx])
                 THEN matched' = [IdleMatch EXCEPT !.result = "type_error",
                                                   !.upstream = kind,
                                                   !.json_items = json_items,
                                                   !.texts = texts,
                                                   !.searches = searches]
                 ELSE
                 matched' = [result |-> "ok", upstream |-> kind, json_items |-> json_items,
                             texts |-> texts, searches |-> searches,
                             rows |-> [idx \in 1..Len(searches) |->
                                         MatchRow(json_items[idx], searches[idx], items)]]
    /\ UNCHANGED <<dbvars, req, gatevars, page, reviewvars, catalogvars, indexvars, search, meta>>

----------------------------------------------------------------------------
(* ItemRepository.fetch_items_meta_by_ids *)

\* A lookup that answers every id, with nulls for the ids that have no Item.
SelectByIdsOrNull(itms, ids) ==
    [i \in ids |->
        IF i \in 1..Len(itms) THEN <<itms[i].name, itms[i].unit, itms[i].code>>
        ELSE <<"", None, "">>]

\* select(Item.id, Item.name, Item.unit, Item.code).where(Item.id.in_(ids))
SelectByIds(itms, ids) ==
    [i \in ids \cap (1..Len(itms)) |-> <<itms[i].name, itms[i].unit, itms[i].code>>]

\* fetch_items_meta_by_ids: no query for an empty list or a list of None;
\* otherwise one query over the sorted set of ids
fetch_items_meta_by_ids(itms, item_ids) ==
    LET ids == {Val(item_ids[i]) : i \in {k \in 1..Len(item_ids) : ~IsNone(item_ids[k])}} IN
    IF item_ids = <<>> \/ ids = {}
    THEN [out |-> <<>>, queries |-> 0]
    ELSE [out |-> SelectByIds(itms, ids), queries |-> 1]

meta_lookup(item_ids) ==
    /\ LET r == fetch_items_meta_by_ids(items, item_ids) IN
       meta' = [called |-> TRUE, item_ids |-> item_ids, out |-> r.out, queries |-> r.queries]
    /\ UNCHANGED <<dbvars, req, gatevars, page, reviewvars, catalogvars, indexvars, search, matched>>

----------------------------------------------------------------------------
(* Review pages: build_initial_view_rows *)

\* build_initial_view_rows(rows, top_k): the top-K of the rows' captions, then
\* one view row per input row; the default decision is the top candidate when
\* it carries an id.  A failed embedding or search raises.
build_initial_view_rows(rows, upstream) ==
    /\ IF upstream_raises(upstream)
       THEN page' = [op |-> "view", result |-> "upstream_error", rows |-> rows,
                     topk |-> <<>>, view_rows |-> <<>>]
       ELSE LET topk == get_topk_for_captions(upstream.searches) IN
            page' = [op |-> "view", result |-> "ok", rows |-> rows, topk |-> topk,
                     view_rows |->
                        [idx \in 1..Len(rows) |->
                            LET candidates == IF idx <= Len(topk) THEN topk[idx] ELSE <<>>
                                auto_id == IF candidates # <<>> /\ ~IsNone(candidates[1].id)
                                           THEN candidates[1].id ELSE None
                            IN  [row_idx |-> idx - 1,
                                 caption |-> rows[idx].caption,
                                 candidates |-> candidates,
                                 auto_selected_item_id |-> auto_id,
                                 selected_item_id |-> auto_id,
                                 label |-> IF ~IsNone(auto_id) THEN "gold" ELSE "none_match"]]]
    /\ UNCHANGED <<dbvars, req, gatevars, reviewvars, catalogvars, indexvars, matchvars>>

----------------------------------------------------------------------------
(* ReviewService.normalize_commit_rows on the JSON body of a commit *)

\* JSON values of a payload row: a key may be missing or null, or hold a
\* number, a string or a list.
Missing == [kind |-> "missing"]
JNull == [kind |-> "null"]
JInt(n) == [kind |-> "int", int |-> n]
JStr(s) == [kind |-> "str", str |-> s]
JList(s) == [kind |-> "list", items |-> s]

\* int(s) on the strings the model uses; surrounding blanks are accepted,
\* any other text raises ValueError
IntOfStr(s) ==
    CASE s = "3"   -> Some(3)
      [] s = " 1 " -> Some(1)
      [] OTHER     -> None

\* str(v) of a value that is present
StrOf(v) == IF v.kind = "int" THEN ToString(v.int) ELSE v.str

\* An integer conversion that turns what int() rejects into 0.
to_int_or_zero(v) ==
    CASE v.kind \in {"missing", "null"} -> None
      [] v.kind = "int"  -> Some(v.int)
      [] v.kind = "str"  -> IF Strip(v.str) = "" THEN None
                            ELSE IF IsNone(IntOfStr(v.str)) THEN Some(0)
                            ELSE IntOfStr(v.str)
      [] v.kind = "list" -> Some(0)

\* _to_int_or_none: int(v) unless v is None or blank; every exception of the
\* conversion gives None
to_int_or_none(v) ==
    CASE v.kind \in {"missing", "null"} -> None
      [] v.kind = "int"  -> Some(v.int)
      [] v.kind = "str"  -> IF Strip(v.str) = "" THEN None ELSE IntOfStr(v.str)
      [] v.kind = "list" -> None

\* str(r.get(key, "") or "").strip(): a missing, null or falsy value is ""
stripped(v) ==
    IF v.kind \in {"missing", "null"} \/ v = JInt(0) \/ v = JStr("") \/ v = JList(<<>>)
    THEN ""
    ELSE Strip(StrOf(v))

\* str(v) if v is not None and str(v).strip() != "" else None
str_or_none(v) ==
    IF v.kind \in {"missing", "null"} THEN None
    ELSE IF Strip(StrOf(v)) = "" THEN None
    ELSE Some(StrOf(v))

\* neg_ids: the entries of a list that convert, in order; [] for a non-list
RECURSIVE neg_ids(_)
neg_ids(negatives) ==
    IF negatives.kind # "list" \/ negatives.items = <<>> THEN <<>>
    ELSE LET ni == to_int_or_none(Last(negatives.items))
             rest == neg_ids(JList(Front(negatives.items))) IN
         IF IsNone(ni) THEN rest ELSE Append(rest, Val(ni))

\* The output row of the dict r at position idx (0-based) of the payload
normalize_row(idx, r) ==
    [row_idx |-> IF IsNone(to_int_or_none(r.row_idx)) THEN idx
                 ELSE Val(to_int_or_none(r.row_idx)),
     caption |-> IF r.caption.kind \in {"missing", "null"} THEN "" ELSE StrOf(r.caption),
     units |-> str_or_none(r.units),
     qty |-> str_or_none(r.qty),
     label |-> IF stripped(r.label) = "" THEN "gold" ELSE stripped(r.label),
     selected_item_id |-> to_int_or_none(r.selected_item_id),
     auto_selected_item_id |-> to_int_or_none(r.auto_selected_item_id),
     negatives |-> neg_ids(r.negatives),
     note |-> IF stripped(r.note) = "" THEN None ELSE Some(stripped(r.note))]

\* for idx, r in enumerate(rows): rows that are not dicts are skipped
RECURSIVE normalize_rows(_)
normalize_rows(rows) ==
    IF rows = <<>> THEN <<>>
    ELSE IF ~Last(rows).is_dict THEN normalize_rows(Front(rows))
    ELSE Append(normalize_rows(Front(rows)), normalize_row(Len(rows) - 1, Last(rows)))

\* normalize_commit_rows(rows) called on the rows of a request body
normalize_payload(rows) ==
    /\ page' = [op |-> "normalize", result |-> "ok", rows |-> rows,
                out |-> normalize_rows(rows)]
    /\ UNCHANGED <<dbvars, req, gatevars, reviewvars, catalogvars, indexvars, matchvars>>

----------------------------------------------------------------------------
(* fsnb_xml_parser._iter_items_from_base *)

\* (el.get(key) or "").strip(): a missing attribute reads as ""
Attr(v) == IF IsNone(v) THEN "" ELSE Strip(Val(v))

\* A name that glues the prefix to the fragment.
FullNameNoSpace(begin, end_name) ==
    IF IsNone(begin) THEN end_name ELSE Val(begin) \o end_name

\* f"{begin} {end_name}".strip() if begin else end_name
FullName(begin, end_name) ==
    IF IsNone(begin) THEN end_name ELSE Val(begin) \o " " \o end_name

\* etree.iterparse(xml_path, events=("start", "end")): nothing read yet
iter_items_from_base ==
    /\ page' = [op |-> "parse", events |-> <<>>, begin_name_stack |-> <<>>, out |-> <<>>]
    /\ UNCHANGED <<dbvars, req, gatevars, reviewvars, catalogvars, indexvars, matchvars>>

\* event == "start" and tag == "NameGroup": push its BeginName, None when blank
start_NameGroup(BeginName) ==
    /\ page.op = "parse"
    /\ Len(page.events) < MaxEvents
    /\ LET begin == IF Attr(BeginName) = "" THEN None ELSE Some(Attr(BeginName)) IN
       page' = [page EXCEPT
                  !.events = Append(@, [event |-> "start", tag |-> "NameGroup",
                                        BeginName |-> BeginName]),
                  !.begin_name_stack = Append(@, begin)]
    /\ UNCHANGED <<dbvars, req, gatevars, reviewvars, catalogvars, indexvars, matchvars>>

\* event == "end" and tag == "Work": a Work with a code and an EndName yields
\* one tuple, named with the BeginName on top of the stack
end_Work(Code, EndName, MeasureUnit) ==
    /\ page.op = "parse"
    /\ Len(page.events) < MaxEvents
    /\ LET code == Attr(Code)
           end_name == Attr(EndName)
           unit == IF Attr(MeasureUnit) = "" THEN None ELSE Some(Attr(MeasureUnit))
           begin == IF page.begin_name_stack # <<>> THEN Last(page.begin_name_stack)
                    ELSE None
       IN
       page' = [page EXCEPT
                  !.events = Append(@, [event |-> "end", tag |-> "Work", Code |-> Code,
                                        EndName |-> EndName, MeasureUnit |-> MeasureUnit]),
                  !.out = IF code # "" /\ end_name # ""
                          THEN Append(@, <<code, FullName(begin, end_name), unit, "work">>)
                          ELSE @]
    /\ UNCHANGED <<dbvars, req, gatevars, reviewvars, catalogvars, indexvars, matchvars>>

\* event == "end" and tag == "NameGroup": pop; the parser closes only a group
\* it has opened
end_NameGroup ==
    /\ page.op = "parse"
    /\ Len(page.events) < MaxEvents
    /\ page.begin_name_stack # <<>>
    /\ page' = [page EXCEPT
                  !.events = Append(@, [event |-> "end", tag |-> "NameGroup"]),
                  !.begin_name_stack = Front(@)]
    /\ UNCHANGED <<dbvars, req, gatevars, reviewvars, catalogvars, indexvars, matchvars>>

----------------------------------------------------------------------------
(* GET /train/review/{session_id}: review_table_get *)

\* The orders in which a SELECT without ORDER BY may return the given rows.
LoadOrders(row_ids) ==
    {p \in [1..Len(row_ids) -> SeqRange(row_ids)] :
        \A i, j \in 1..Len(row_ids) : p[i] = p[j] => i = j}

\* sorted(r.candidates, key=rank): the item ids of a row's candidates
CandidatesByRank(row_id) ==
    LET cs == {i \in 1..Len(feedback_candidates) : feedback_candidates[i].row_id = row_id}
        Before(i) == {j \in cs : feedback_candidates[j].rank < feedback_candidates[i].rank}
        Nth[n \in 1..Cardinality(cs)] == CHOOSE i \in cs : Cardinality(Before(i)) = n - 1
    IN  [n \in 1..Cardinality(cs) |-> feedback_candidates[Nth[n]].item_id]

\* The page of a stored session.  FeedbackSession.rows is a relationship
\* without order_by, loaded by selectinload: `rows` is the order in which the
\* database returned the session's rows, and row_idx is the position in it.
review_table_get(session_id, rows) ==
    /\ IF session_id \notin 1..Len(feedback_sessions)
       THEN page' = [op |-> "table", result |-> "not_found",
                     session_id |-> session_id, view_rows |-> <<>>]
       ELSE page' = [op |-> "table", result |-> "ok", session_id |-> session_id,
                     view_rows |->
                        [idx \in 1..Len(rows) |->
                            LET candidates == CandidatesByRank(rows[idx]) IN
                            [row_idx |-> idx - 1,
                             caption |-> feedback_rows[rows[idx]].caption,
                             candidates |-> candidates,
                             selected_item_id |-> IF candidates = <<>> THEN None
                                                  ELSE Some(candidates[1]),
                             label |-> IF candidates = <<>> THEN "none_match" ELSE "gold"]]]
    /\ UNCHANGED <<dbvars, req, gatevars, reviewvars, catalogvars, indexvars, matchvars>>

----------------------------------------------------------------------------
(* persist_commit without session_id: the path that creates the session *)

\* FeedbackCandidateRepository.bulk_create_from_topk: the lists are numbered
\* from 0 by enumerate(topk); each non-empty list is bound through key row_idx,
\* else row_idx + 1, and yields one candidate per entry with an integer id.
RECURSIVE bulk_create_from_topk(_, _)
bulk_create_from_topk(topk, row_id_by_idx) ==
    IF topk = <<>> THEN <<>>
    ELSE LET row_idx == Len(topk) - 1
             row_id == RowIdFor(row_id_by_idx, row_idx)
             objs == bulk_create_from_topk(Front(topk), row_id_by_idx)
         IN  IF IsNone(row_id) THEN objs
             ELSE objs \o RowCandidates(Val(row_id), Last(topk))

\* rows: the normalised payload, Seq of [row_idx, caption, label,
\* selected_item_id].  One transaction creates the session and one row per
\* payload row, binds row_idx of the i-th payload row to the i-th new row,
\* stores the candidates and the labels and closes the session; an exception
\* of the embedding or search call or a constraint violation rolls it back.
\* The new rows get no created_by (shown as "") and is_trusted false.
persist_commit_new_session(rows, actor, upstream) ==
    /\ IF upstream_raises(upstream)
       THEN /\ page' = [op |-> "commit_new", result |-> "upstream_error",
                        session_id |-> 0, rows |-> rows, topk |-> <<>>]
            /\ UNCHANGED <<dbvars, feedback_candidates>>
       ELSE LET sid == Len(feedback_sessions) + 1
                first == Len(feedback_rows) + 1
                topk == get_topk_for_captions(upstream.searches)
                keys == {rows[i].row_idx : i \in 1..Len(rows)}
                row_id_by_idx ==
                    [k \in keys |->
                        first - 1 + Max({i \in 1..Len(rows) : rows[i].row_idx = k})]
                cands == feedback_candidates \o bulk_create_from_topk(topk, row_id_by_idx)
            IN
            IF IntegrityOk(cands, items)
            THEN /\ feedback_sessions' = Append(feedback_sessions, [status |-> "closed"])
                 /\ feedback_rows' = feedback_rows \o
                        [i \in 1..Len(rows) |->
                            [session_id |-> sid, caption |-> rows[i].caption,
                             is_trusted |-> FALSE, created_by |-> ""]]
                 /\ feedback_candidates' = cands
                 /\ feedback_labels' = feedback_labels \o
                        bulk_create_from_commit(rows, row_id_by_idx, actor,
                                                is_actor_editor(actor))
                 /\ page' = [op |-> "commit_new", result |-> "ok", session_id |-> sid,
                             rows |-> rows, topk |-> topk]
            ELSE /\ page' = [op |-> "commit_new", result |-> "db_error",
                             session_id |-> 0, rows |-> rows, topk |-> topk]
                 /\ UNCHANGED <<dbvars, feedback_candidates>>
    /\ UNCHANGED <<req, gatevars, review, catalogvars, indexvars, matchvars>>

----------------------------------------------------------------------------
(* Inputs *)

Captions == {"a", "b"}

CaptionLists(caps, maxlen) == UNION {[1..n -> caps] : n \in 1..maxlen}

Decisions ==
    {[label |-> "",         selected_item_id |-> None],
     [label |-> "gold",     selected_item_id |-> None],
     [label |-> " gold ",   selected_item_id |-> Some(7)],
     [label |-> "GOLD",     selected_item_id |-> Some(7)]}

RowIdxInputs == {None} \cup {Some(k) : k \in 0..MaxRows}

PayloadRows(idxs, decisions) ==
    {[row_idx |-> i, label |-> d.label, selected_item_id |-> d.selected_item_id] :
        i \in idxs, d \in decisions}

Payloads(rowset, maxlen) == UNION {[1..n -> rowset] : n \in 0..maxlen}

\* The first n captions of an uploaded specification, all different.
FirstCaptions(n) == [i \in 1..n |-> <<"a", "b", "c">>[i]]

\* A search that found no point for any caption.
NoHits(captions) == UpstreamOk([i \in 1..Len(captions) |-> <<>>])

\* Items 1 and 2 of a catalog that was ingested before.
SeedItems ==
    <<[code |-> "c1", name |-> "n1", unit |-> None, type |-> "work"],
      [code |-> "c2", name |-> "n2", unit |-> Some("m"), type |-> "resource"]>>

Point(raw_id, score) == [id |-> raw_id, score |-> score]

\* What the search may answer for one caption: nothing, two items, a point
\* with a UUID id ahead of an item, the same id twice, and a point whose item
\* is no longer in the table.
FoundLists ==
    {<<>>,
     <<Point(IntId(1), 90), Point(IntId(2), 35)>>,
     <<Point(UuidId, 90), Point(IntId(1), 35)>>,
     <<Point(IntId(1), 90), Point(IntId(1), 90)>>,
     <<Point(IntId(9), 90)>>}

\* The found lists a collection can answer: every point is one it holds.
FoundIn(collection) ==
    {f \in FoundLists : \A k \in 1..Len(f) : \E p \in collection : p.id = f[k].id}

\* Every outcome of the embedding and search calls for n captions.
Upstreams(n, founds) ==
    {UpstreamError("embed_error"), UpstreamError("search_error")}
        \cup {UpstreamOk(sr) : sr \in [1..n -> founds]}

\* A collection built earlier: the points of items 1 and 2, the point of an
\* item that was deleted since, and a point another writer stored under a UUID.
SeedCollection ==
    {[id |-> IntId(1), vector |-> [embedding_of |-> "n1"], name |-> "n1"],
     [id |-> IntId(2), vector |-> [embedding_of |-> "n2"], name |-> "n2"],
     [id |-> IntId(9), vector |-> [embedding_of |-> "n9"], name |-> "n9"],
     [id |-> UuidId, vector |-> [embedding_of |-> "x"], name |-> "x"]}

\* The items table after an ingestion of n distinct codes.
ItemTable(n) ==
    [i \in 1..n |-> [code |-> "c" \o ToString(i), name |-> "n" \o ToString(i),
                     unit |-> IF i = 2 THEN Some("m") ELSE None,
                     type |-> IF i = 2 THEN "resource" ELSE "work"]]

ItemTables == {ItemTable(n) : n \in 0..MaxItems}

\* Items of a match request: with a caption, and without one.
JsonItems ==
    {[Caption |-> Some("a"), Units |-> Some("m")],
     [Caption |-> None, Units |-> None]}

JsonItemLists == UNION {[1..n -> JsonItems] : n \in 0..MaxRows}

\* The vectors match_items computes for its items.
VectorsOf(json_items) ==
    SeqRange(encode_impl(embed_captions(
        [i \in 1..Len(json_items) |-> caption_of(json_items[i])])))

\* Lists of ids to look up: present, absent, repeated, None.
IdLists == UNION {[1..n -> {Some(1), Some(2), Some(9), None}] : n \in 0..MaxIds}

\* Tuples of the parser: code and name are never empty, the unit may be
\* absent, the type is work or resource.  Two of them share a code.
CatalogRows ==
    {<<"c1", "n1", None, "work">>,
     <<"c1", "n2", Some("m"), "resource">>,
     <<"c2", "n1", None, "work">>}

Catalogs == UNION {[1..n -> CatalogRows] : n \in 0..MaxCatalog}

\* Rows of a direct bulk upsert: a code of the catalog with other fields, and
\* a code the catalog does not have.
UpsertRows ==
    {<<"c1", "n3", Some("kg"), "resource">>,
     <<"c3", "n1", None, "work">>}

PlainDecisions ==
    {[label |-> "gold",     selected_item_id |-> Some(7)],
     [label |-> "negative", selected_item_id |-> None]}

\* The rows of an uploaded specification, as the upload page hands them over
ViewRowLists == UNION {[1..n -> {[caption |-> "a"]}] : n \in 0..MaxRows}

\* A payload row with no key at all
EmptyJsonRow ==
    [is_dict |-> TRUE, row_idx |-> Missing, caption |-> Missing, units |-> Missing,
     qty |-> Missing, label |-> Missing, selected_item_id |-> Missing,
     auto_selected_item_id |-> Missing, negatives |-> Missing, note |-> Missing]

\* Rows of a commit body: a value that is not an object, an object with no
\* key, and objects with blank, textual, numeric and list values in every field
JsonRows ==
    {[is_dict |-> FALSE],
     EmptyJsonRow,
     [EmptyJsonRow EXCEPT !.row_idx = JStr("abc"), !.caption = JStr("a"),
                          !.units = JStr("  "), !.qty = JNull, !.label = JStr("  "),
                          !.selected_item_id = JStr("3"), !.note = JStr("  "),
                          !.negatives = JList(<<JInt(4), JStr("abc"), JStr("3"), JNull>>)],
     [EmptyJsonRow EXCEPT !.row_idx = JInt(1), !.caption = JStr("b"),
                          !.units = JInt(0), !.qty = JStr("3"), !.label = JStr(" gold "),
                          !.selected_item_id = JInt(7), !.auto_selected_item_id = JList(<<>>),
                          !.note = JStr("n"), !.negatives = JStr("3")],
     [EmptyJsonRow EXCEPT !.row_idx = JStr(" 1 "), !.label = JInt(0),
                          !.selected_item_id = JStr("abc"), !.note = JNull,
                          !.negatives = JList(<<JList(<<>>)>>)],
     [EmptyJsonRow EXCEPT !.row_idx = JList(<<>>), !.label = JStr("skip"),
                          !.units = JStr("m"), !.qty = JInt(3)],
     [EmptyJsonRow EXCEPT !.row_idx = JStr("3"), !.label = JStr("GOLD"),
                          !.negatives = JList(<<JInt(4), JInt(5)>>)],
     [EmptyJsonRow EXCEPT !.row_idx = JInt(0), !.label = JNull, !.caption = JNull,
                          !.selected_item_id = JNull, !.negatives = JNull]}

JsonRowLists == UNION {[1..n -> JsonRows] : n \in 0..MaxPayloadRows}

----------------------------------------------------------------------------
(* Specifications *)

CommitSteps(r) ==
    \/ commit_select_rows(r)
    \/ commit_delete_labels(r)
    \/ commit_update_rows(r)
    \/ commit_insert_labels(r)
    \/ commit_close_session(r)
    \/ commit_commit(r)
    \/ commit_fail(r)

\* The life cycle of one review session: creation, commits by every kind of
\* user, transactions that fail, and the admin's edit form.
Next ==
    \/ \E captions \in CaptionLists({"a"}, MaxRows), actor \in {"reader"} :
          /\ feedback_sessions = <<>>
          /\ review_create(captions, actor, NoHits(captions))
    \/ \E actor \in Users,
          body \in Payloads(PayloadRows({None}, PlainDecisions), MaxPayloadRows) :
          commit_begin(1, 1, body, actor)
    \/ CommitSteps(1)
    \/ \E u \in Users, status \in {"open", "closed"} :
          admin_model_edit_post(u, 1, status)

Spec == Init /\ [][Next]_vars

\* One open review session committed with every shape of payload (commits on
\* a closed session are part of Next).
NextPayload ==
    \/ \E n \in 1..MaxRows, actor \in {"reader"} :
          /\ feedback_sessions = <<>>
          /\ review_create(FirstCaptions(n), actor, NoHits(FirstCaptions(n)))
    \/ /\ feedback_sessions # <<>>
       /\ ~is_closed(feedback_sessions[1])
       /\ \E body \in Payloads(PayloadRows(RowIdxInputs, Decisions), MaxPayloadRows) :
             commit_begin(1, 1, body, "admin")
    \/ CommitSteps(1)

SpecPayload == Init /\ [][NextPayload]_vars

\* Review creations over every outcome of the embedding and search calls,
\* with commits of the first session in between.
InitReview == InitFeedback({1}) /\ InitServices({<<>>}, {SeedItems}, {SeedCollection})

NextReview ==
    \/ /\ Len(feedback_sessions) <= 1
       /\ \E captions \in CaptionLists({"a"}, MaxRows) :
             \E upstream \in Upstreams(Len(captions), FoundIn(qdrant)) :
                review_create(captions, "reader", upstream)
    \/ /\ feedback_sessions # <<>>
       /\ commit_begin(1, 1, <<[row_idx |-> None, label |-> "gold",
                                selected_item_id |-> Some(1)]>>, "admin")
    \/ CommitSteps(1)

SpecReview == InitReview /\ [][NextReview]_vars

\* Ingestion runs over one catalog, with direct bulk upserts in between.
InitIngest == InitFeedback({1}) /\ InitServices(Catalogs, {<<>>}, {{}})

NextIngest ==
    \/ ingest_to_postgres
    \/ bulk_insert_items
    \/ ingest_done
    \/ \E rows \in UNION {[1..n -> UpsertRows] : n \in 1..2} : bulk_upsert_dicts(rows)

SpecIngest == InitIngest /\ [][NextIngest]_vars

\* Rebuilds of the index over an items table, and match requests against
\* whatever the collection holds.
InitIndex == InitFeedback({1}) /\ InitServices({<<>>}, ItemTables, {{}, SeedCollection})

NextIndex ==
    \/ init_all_collections
    \/ index_batch
    \/ index_done
    \/ \E json_items \in JsonItemLists :
          \/ \E kind \in {"embed_error", "search_error"} :
                match_items(json_items, kind, <<>>)
          \/ \E answer \in [VectorsOf(json_items) -> FoundIn(qdrant)] :
                match_items(json_items, "ok", answer)

SpecIndex == InitIndex /\ [][NextIndex]_vars

\* One _qdrant_search call after another, for every number of vectors.
NextSearch ==
    \/ \E n \in 0..MaxVectors : qdrant_search_call(n)
    \/ qdrant_query_batch
    \/ qdrant_search_return

SpecSearch == Init /\ [][NextSearch]_vars

\* Metadata lookups over an items table.
InitMeta == InitFeedback({1}) /\ InitServices({<<>>}, ItemTables, {{}})

NextMeta == \E item_ids \in IdLists : meta_lookup(item_ids)

SpecMeta == InitMeta /\ [][NextMeta]_vars

\* The accelerator gate under any interleaving of the calling threads.
NextGate ==
    \E c \in Callers :
        \/ encode_call(c)
        \/ gpu_sem_create(c)
        \/ sem_acquire(c)
        \/ encode_return(c)
        \/ encode_raise(c)

SpecGate == InitGate /\ [][NextGate]_vars

\* Fair scheduling of the threads and terminating model calls: a thread inside
\* encode() keeps running, and a waiter is not passed over forever.
FairGate ==
    /\ InitGate
    /\ [][NextGate]_vars
    /\ \A c \in Callers : WF_vars(gpu_sem_create(c))
    /\ \A c \in Callers : SF_vars(sem_acquire(c))
    /\ \A c \in Callers : WF_vars(encode_return(c) \/ encode_raise(c))

\* Two review sessions with candidates, and two commit requests that may
\* name either session and run their transactions at the same time.  Request
\* 1 is the admin's and selects item 1 on every row, request 2 is the
\* reader's and marks every row negative.
NextSessions ==
    \/ \E n \in 1..MaxRows :
          /\ Len(feedback_sessions) < 2
          /\ review_create(FirstCaptions(n), "reader",
                           UpstreamOk([i \in 1..n |-> <<Point(IntId(1), 90)>>]))
    \/ \E session_id \in {1, 2}, n \in 1..MaxPayloadRows :
          \/ commit_begin(1, session_id,
                          [i \in 1..n |-> [row_idx |-> None, label |-> "gold",
                                           selected_item_id |-> Some(1)]], "admin")
          \/ commit_begin(2, session_id,
                          [i \in 1..n |-> [row_idx |-> None, label |-> "negative",
                                           selected_item_id |-> None]], "reader")
    \/ \E r \in Reqs : CommitSteps(r)

SpecSessions == InitReview /\ [][NextSessions]_vars

\* The upload page and the normalisation of a commit body, each called with
\* every input.
NextPage ==
    \/ \E rows \in ViewRowLists :
          \E upstream \in Upstreams(Len(rows), FoundIn(qdrant)) :
             build_initial_view_rows(rows, upstream)
    \/ \E rows \in JsonRowLists : normalize_payload(rows)

SpecPage == InitReview /\ [][NextPage]_vars

\* Stored sessions, with and without candidates, and their review pages under
\* every order in which the rows may be loaded.
NextTable ==
    \/ \E n \in 1..MaxRows :
          \E found \in {<<>>, <<Point(IntId(1), 90), Point(IntId(2), 35)>>,
                         <<Point(UuidId, 90), Point(IntId(1), 35)>>} :
             /\ Len(feedback_sessions) < 2
             /\ review_create(FirstCaptions(n), "reader", UpstreamOk([i \in 1..n |-> found]))
    \/ \E session_id \in {1, 2} :
          \E rows \in LoadOrders(RowIdsOf(feedback_rows, session_id)) :
             review_table_get(session_id, rows)

SpecTable == InitReview /\ [][NextTable]_vars

\* Payloads whose rows are numbered from `base` in payload order, with
\* alternating decisions.
NumberedRows(n, base) ==
    [i \in 1..n |->
        [row_idx |-> base + i - 1, caption |-> FirstCaptions(n)[i],
         label |-> IF i % 2 = 1 THEN "gold" ELSE "negative",
         selected_item_id |-> IF i % 2 = 1 THEN Some(1) ELSE None]]

\* Commits without session_id, numbered from 0 and from 1, over every answer
\* of the search.
NextNewSession ==
    \E n \in 1..MaxPayloadRows, base \in {0, 1}, actor \in {"admin", "reader"} :
       \E upstream \in Upstreams(n, {<<>>, <<Point(IntId(1), 90), Point(IntId(2), 35)>>,
                                       <<Point(UuidId, 90), Point(IntId(2), 35)>>}) :
          /\ Len(feedback_sessions) < 2
          /\ persist_commit_new_session(NumberedRows(n, base), actor, upstream)

SpecNewSession == InitReview /\ [][NextNewSession]_vars

\* The parser reading works catalogs event by event: groups with and without
\* a BeginName, nested to any depth, and Works with and without a code and
\* an EndName.
NextParse ==
    \/ iter_items_from_base
    \/ \E BeginName \in {None, Some("B1"), Some("B2")} : start_NameGroup(BeginName)
    \/ \E w \in {<<Some("c1"), Some("e")>>, <<None, Some("e")>>, <<Some("c1"), Some("  ")>>} :
          end_Work(w[1], w[2], Some("m"))
    \/ end_NameGroup

SpecParse == Init /\ [][NextParse]_vars

----------------------------------------------------------------------------
(* Properties *)

\* Request r takes a step of its transaction that is not a successful COMMIT.
StepWithoutCommit(r) ==
    /\ req[r].pc \in InTransaction
    /\ req'[r] # req[r]
    /\ req'[r].result # "ok"

\* Request r's transaction commits in this step.
Commits(r) == req[r].pc = "commit" /\ req'[r].result = "ok" /\ req'[r].pc = "idle"

SessionRowIds(sid) == SeqRange(RowIdsOf(feedback_rows, sid))

LabelsOn(labels, row_ids) == SelectSeq(labels, LAMBDA l : l.row_id \in row_ids)

\* C1: a commit is all or nothing: a step of a commit transaction that is not
\* its successful COMMIT, a failure at any step included, leaves the committed
\* tables exactly as they were, and the labels change only in a step that
\* leaves the session closed.
C1_CommitAllOrNothing ==
    [][ /\ \A r \in Reqs : StepWithoutCommit(r) => dbvars' = dbvars
        /\ \A r \in Reqs :
              (req'[r] # req[r] /\ feedback_labels' # feedback_labels) =>
                  /\ Commits(r)
                  /\ feedback_sessions'[req[r].session_id].status = "closed" ]_vars

\* C1 witness: a transaction failed after its labels were inserted, on a
\* session that had labels before; the session is open and the old labels are
\* still there.
C1_Witness ==
    /\ req[1].result = "error"
    /\ req[1].failed_at \in {"close_session", "commit"}
    /\ feedback_sessions[1].status = "open"
    /\ feedback_labels # <<>>

\* C2: a commit request that names a closed session is answered "already
\* closed" at once and changes no table.
C2_ClosedSessionRejected ==
    [][ \A r \in Reqs :
          ( /\ req[r].pc = "idle"
            /\ req'[r] # req[r]
            /\ req'[r].result # "bad_request"
            /\ req'[r].session_id \in 1..Len(feedback_sessions)
            /\ feedback_sessions[req'[r].session_id].status = "closed" )
          => ( /\ req'[r].pc = "idle"
               /\ req'[r].result = "already_closed"
               /\ dbvars' = dbvars ) ]_vars

\* C2 witness: a commit was rejected on the closed session, whose labels from
\* the first commit are in place.
C2_Witness ==
    /\ req[1].result = "already_closed"
    /\ feedback_sessions[1].status = "closed"
    /\ feedback_labels # <<>>

\* C3 (as claimed): a commit whose payload has another number of rows than the
\* session never succeeds and never changes a table.
C3_RowCountMismatchRejected ==
    [][ \A r \in Reqs :
          ( /\ req[r].pc \in InTransaction
            /\ req[r].row_ids # <<>>
            /\ req'[r] # req[r]
            /\ Len(req[r].rows) # Len(req[r].row_ids) )
          => (req'[r].result # "ok" /\ dbvars' = dbvars) ]_vars

\* C4 (as claimed): a successful commit inserts exactly one label per payload row.
C4_OneLabelPerPayloadRow ==
    [][ \A r \in Reqs :
          Commits(r) =>
              Len(feedback_labels') =
                  Len(KeptLabels(feedback_labels, req[r].deleted)) + Len(req[r].rows) ]_vars

\* C5 (as claimed): a closed session stays closed, and gets no new row and no
\* new label on its rows.
C5_ClosedIsFinal ==
    [][ \A sid \in 1..Len(feedback_sessions) :
          feedback_sessions[sid].status = "closed" =>
              /\ feedback_sessions'[sid].status = "closed"
              /\ RowIdsOf(feedback_rows', sid) = RowIdsOf(feedback_rows, sid)
              /\ Len(LabelsOn(feedback_labels', SessionRowIds(sid)))
                    <= Len(LabelsOn(feedback_labels, SessionRowIds(sid))) ]_vars

GoldUnselected(r) == r.label = "gold" /\ IsNone(r.selected_item_id)

C7_StoredLabelInEnum ==
    \A i \in 1..Len(feedback_labels) : feedback_labels[i].label \in FeedbackLabelEnum

EditorUsers == {"superadmin", "admin", "staff", "updater"}

\* C8: when a commit succeeds, every row of the session and every label on
\* its rows has is_trusted true exactly when the committing user holds one of
\* the roles superadmin, admin, staff, updater.
C8_TrustFollowsRole ==
    [][ \A r \in Reqs :
          Commits(r) =>
              LET row_ids == SeqRange(RowIdsOf(feedback_rows', req[r].session_id)) IN
              /\ \A i \in row_ids :
                    feedback_rows'[i].is_trusted = (req[r].actor \in EditorUsers)
              /\ \A j \in 1..Len(feedback_labels') :
                    feedback_labels'[j].row_id \in row_ids =>
                        feedback_labels'[j].is_trusted = (req[r].actor \in EditorUsers) ]_vars

\* C8 witness: a commit by the updater left a trusted row and a trusted label.
C8_Witness ==
    /\ req[1].result = "ok"
    /\ \E i \in 1..Len(feedback_rows) :
          feedback_rows[i].is_trusted /\ feedback_rows[i].created_by = "updater"
    /\ \E j \in 1..Len(feedback_labels) :
          feedback_labels[j].is_trusted /\ feedback_labels[j].created_by = "updater"

Running == {c \in Callers : caller[c].pc = "running"}

\* C9 (as claimed): at most N = max(1, gpu_slots) threads are inside the model
\* call at once.
C9_AtMostNRunning == Cardinality(Running) <= Permits(gpu_slots)

\* C10: every Semaphore's free permits plus the calls running under it are N,
\* so the permits are back to N when no call runs, whether calls returned or
\* raised; and a thread waiting at the gate eventually is through it and back
\* from encode().
C10_GateLiveness ==
    /\ [](\A s \in 1..Len(sem_permits) :
            sem_permits[s] + Cardinality({c \in Running : caller[c].sem = s})
                = Permits(gpu_slots))
    /\ \A c \in Callers : (caller[c].pc = "acquire") ~> (caller[c].pc = "idle")

\* C10 witness: a thread waits at a saturated gate after a call has raised.
C10_Witness ==
    /\ \E c \in Callers :
          caller[c].pc = "acquire" /\ sem_permits[caller[c].sem] = 0
    /\ \E c \in Callers : caller[c].last = "raised"

\* C12: a review creation that succeeds adds, in one step, exactly one
\* session, open, and exactly one row per input item; the session's rows in
\* ascending id order carry the input captions in input order, each with
\* is_trusted false and without a label; nothing else is touched.
C12_ReviewCreateShape ==
    [][ (review' # review /\ review'.result = "ok") =>
          LET sid == review'.session_id
              ids == RowIdsOf(feedback_rows', sid) IN
          /\ feedback_sessions' = Append(feedback_sessions, [status |-> "open"])
          /\ sid = Len(feedback_sessions')
          /\ SubSeq(feedback_rows', 1, Len(feedback_rows)) = feedback_rows
          /\ Len(feedback_rows') = Len(feedback_rows) + Len(review'.captions)
          /\ Len(ids) = Len(review'.captions)
          /\ \A i \in 1..Len(ids) :
                /\ feedback_rows'[ids[i]].caption = review'.captions[i]
                /\ feedback_rows'[ids[i]].is_trusted = FALSE
                /\ i < Len(ids) => ids[i] < ids[i + 1]
          /\ feedback_labels' = feedback_labels
          /\ LabelsOn(feedback_labels', SeqRange(ids)) = <<>> ]_vars

\* C12 witness: a second session was created with two rows and a candidate,
\* after the first one.
C12_Witness ==
    /\ review.result = "ok"
    /\ review.session_id = 2
    /\ Len(review.captions) = 2
    /\ \E i \in 1..Len(feedback_candidates) :
          feedback_rows[feedback_candidates[i].row_id].session_id = 2

\* C13: a review creation whose embedding or search call failed reports the
\* error and persists no session, no row and no candidate.
C13_UpstreamErrorPersistsNothing ==
    [][ (review' # review /\ review'.upstream \in {"embed_error", "search_error"}) =>
          /\ review'.result = "upstream_error"
          /\ dbvars' = dbvars
          /\ feedback_candidates' = feedback_candidates ]_vars

\* C13 witness: the search failed for a creation that came after a
\* successful one; only the first session exists.
C13_Witness ==
    /\ review.result = "upstream_error"
    /\ review.upstream = "search_error"
    /\ Len(feedback_sessions) = 1
    /\ feedback_candidates # <<>>

\* C14: no two stored candidates share (row_id, item_id, model_name).
C14_CandidateKeyUnique ==
    \A i, j \in 1..Len(feedback_candidates) :
        CandidateKey(feedback_candidates[i]) = CandidateKey(feedback_candidates[j]) => i = j

\* C14 witness: the same item is a candidate of two rows, a creation whose
\* search answered one id twice for a row was refused, and a commit has
\* closed a session since.
C14_Witness ==
    /\ review.result = "db_error"
    /\ \E i, j \in 1..Len(feedback_candidates) :
          /\ feedback_candidates[i].item_id = feedback_candidates[j].item_id
          /\ feedback_candidates[i].row_id # feedback_candidates[j].row_id
    /\ \E sid \in 1..Len(feedback_sessions) : feedback_sessions[sid].status = "closed"

ItemTuples(itms) == {<<itms[i].code, itms[i].name, itms[i].unit, itms[i].type>> : i \in 1..Len(itms)}

\* C15: once one ingestion run over the catalog has finished, no step of a
\* later run over the same catalog adds or changes a row: the row count and
\* the set of (code, name, unit, kind) tuples stay what the first run left.
C15_IngestionIdempotent ==
    [][ (ingest.runs >= 2 /\ ingest' # ingest) =>
          /\ items' = items
          /\ Len(items') = Len(items)
          /\ ItemTuples(items') = ItemTuples(items) ]_vars

\* C15 witness: the second run has finished over a catalog of a full chunk
\* and a tail, and every tuple of the catalog has its code in the table.
C15_Witness ==
    /\ ingest.pc = "done"
    /\ ingest.runs = 2
    /\ Len(catalog) > chunk_size
    /\ \A i \in 1..Len(catalog) : HasCode(items, catalog[i][1])
    /\ Len(items) >= 2

\* C16: no two items share a code, and no step changes or removes a stored
\* item: an item keeps its id (its place), code, name, unit and kind.
C16_CodeUniqueFirstWins ==
    /\ [](\A i, j \in 1..Len(items) : items[i].code = items[j].code => i = j)
    /\ [][ /\ Len(items') >= Len(items)
           /\ SubSeq(items', 1, Len(items)) = items ]_vars

\* C16 witness: the catalog named code c1 twice with different fields, in one
\* chunk, and a later upsert named it again; the table holds the first tuple.
C16_Witness ==
    /\ ingest.pc = "done"
    /\ Len(catalog) >= 2
    /\ catalog[1] = <<"c1", "n1", None, "work">>
    /\ catalog[2] = <<"c1", "n2", Some("m"), "resource">>
    /\ items # <<>>
    /\ items[1] = ItemOf(catalog[1])
    /\ HasCode(items, "c3")

\* C11 (as claimed): every text that match_items and get_topk_for_captions
\* hand to the model is the caption behind the instruction prefix, and every
\* point of the index carries the embedding of its bare item name.
C11_CaptionsInQueryMode ==
    /\ \A i \in 1..Len(matched.texts) :
          matched.texts[i] = INSTRUCT_QUERY \o caption_of(matched.json_items[i])
    /\ \A i \in 1..Len(review.texts) :
          review.texts[i] = INSTRUCT_QUERY \o review.captions[i]
    /\ \A p \in qdrant : p.vector = [embedding_of |-> p.name]

C18_SearchBatchChunks ==
    /\ \A k \in 1..Len(search.requests) :
          search.requests[k] >= 1 /\ search.requests[k] <= 64
    /\ search.pc = "done" =>
          /\ Len(search.all_results) = Len(search.vectors)
          /\ \A i \in 1..Len(search.vectors) :
                search.all_results[i] = SearchAnswer[search.vectors[i]]
          /\ search.all_results = qdrant_search(search.vectors, SearchAnswer)

\* C18 witness: a call with two full chunks and a tail of two has returned.
C18_Witness ==
    /\ search.pc = "done"
    /\ Len(search.vectors) = 2 * batch_size + 2
    /\ search.requests = <<batch_size, batch_size, 2>>
    /\ Len(search.all_results) = 2 * batch_size + 2

NoItemFor(found) ==
    /\ found # <<>>
    /\ \/ IsNone(safe_int(found[1].id))
       \/ Val(safe_int(found[1].id)) \notin 1..Len(items)

\* C19 (as claimed): a match whose embedding and search calls succeeded
\* returns, with one row per input item, in input order, each keeping its
\* input item; a caption with no hit gets null name, code and unit with
\* score 0, and a caption whose best hit has no Item gets null name, code and
\* unit with that hit's score.
C19_MatchOneRowPerCaption ==
    (matched.result # "none" /\ matched.upstream \notin {"embed_error", "search_error"}) =>
        /\ matched.result = "ok"
        /\ Len(matched.rows) = Len(matched.json_items)
        /\ \A i \in 1..Len(matched.rows) :
              /\ matched.rows[i].item = matched.json_items[i]
              /\ (matched.searches[i] = <<>> \/ NoItemFor(matched.searches[i])) =>
                    /\ IsNone(matched.rows[i].name)
                    /\ IsNone(matched.rows[i].code)
                    /\ IsNone(matched.rows[i].unit)
                    /\ matched.rows[i].conf =
                          IF matched.searches[i] = <<>> THEN 0 ELSE matched.searches[i][1].score

PresentIds(item_ids) ==
    {Val(item_ids[i]) : i \in {k \in 1..Len(item_ids) : ~IsNone(item_ids[k])}}

\* C20: a lookup returns exactly one entry per distinct input id that has an
\* Item, holding that item's name, unit and code, and issues at most one
\* query.
C20_MetaOneEntryPerExistingId ==
    meta.called =>
        /\ DOMAIN meta.out = PresentIds(meta.item_ids) \cap (1..Len(items))
        /\ \A i \in DOMAIN meta.out :
              meta.out[i] = <<items[i].name, items[i].unit, items[i].code>>
        /\ meta.queries <= 1

\* C20 witness: a lookup of an id given twice and of an id without an Item
\* answered with the one entry, from one query.
C20_Witness ==
    /\ meta.called
    /\ Len(meta.item_ids) = 3
    /\ meta.item_ids[1] = Some(1)
    /\ meta.item_ids[2] = Some(1)
    /\ meta.item_ids[3] = Some(9)
    /\ DOMAIN meta.out = {1}
    /\ meta.queries = 1

DictRowAt(rows, k) ==
    CHOOSE i \in 1..Len(rows) :
        /\ rows[i].is_dict
        /\ Cardinality({j \in 1..i : rows[j].is_dict}) = k

Blank(v) == v.kind \in {"missing", "null"} \/ (v.kind = "str" /\ Strip(v.str) = "")

\* C22: normalize_commit_rows returns for every list of rows: one output row
\* per input row that is an object, in input order, with a non-empty label
\* (gold when missing or blank), an integer row_idx (the input's when it is
\* an integer or the text of one, else the row's position in the input), the
\* negatives that convert to integers, and null for blank units, qty and note.
C22_NormalizeNeverRejects ==
    page.op = "normalize" =>
        /\ page.result = "ok"
        /\ Len(page.out) = Cardinality({i \in 1..Len(page.rows) : page.rows[i].is_dict})
        /\ \A k \in 1..Len(page.out) :
              LET i == DictRowAt(page.rows, k)
                  r == page.rows[i]
                  o == page.out[k] IN
              /\ o.caption = (IF Blank(r.caption) THEN "" ELSE r.caption.str)
              /\ o.label # ""
              /\ Blank(r.label) => o.label = "gold"
              /\ o.row_idx \in Int
              /\ r.row_idx.kind = "int" => o.row_idx = r.row_idx.int
              /\ (r.row_idx.kind \in {"missing", "null", "list"} \/ r.row_idx = JStr("abc"))
                    => o.row_idx = i - 1
              /\ \A n \in 1..Len(o.negatives) : o.negatives[n] \in Int
              /\ r.negatives.kind = "list" =>
                    Len(o.negatives) =
                        Cardinality({n \in 1..Len(r.negatives.items) :
                                        \/ r.negatives.items[n].kind = "int"
                                        \/ r.negatives.items[n] = JStr("3")})
              /\ Blank(r.units) => IsNone(o.units)
              /\ Blank(r.qty) => IsNone(o.qty)
              /\ Blank(r.note) => IsNone(o.note)

\* C22 witness: a body whose first row is not an object and whose second has
\* a textual row_idx, blank label, units and note, and negatives of which two
\* convert, normalised to one row at position 1.
C22_Witness ==
    /\ page.op = "normalize"
    /\ Len(page.rows) = 2
    /\ ~page.rows[1].is_dict
    /\ page.rows[2].is_dict
    /\ page.rows[2].row_idx = JStr("abc")
    /\ Len(page.out) = 1
    /\ page.out[1].row_idx = 1
    /\ page.out[1].label = "gold"
    /\ page.out[1].negatives = <<4, 3>>
    /\ IsNone(page.out[1].units)
    /\ IsNone(page.out[1].note)

\* The NameGroups open at event p: those started before p whose end has not
\* come, i.e. after which every prefix up to p holds no more ends than starts
OpenGroups(evs, p) ==
    {q \in 1..(p - 1) :
        /\ evs[q].tag = "NameGroup" /\ evs[q].event = "start"
        /\ \A m \in (q + 1)..(p - 1) :
              Cardinality({k \in (q + 1)..m : evs[k].tag = "NameGroup" /\ evs[k].event = "end"})
                <= Cardinality({k \in (q + 1)..m : evs[k].tag = "NameGroup" /\ evs[k].event = "start"})}

\* The name the Work at event p is to get
WorkName(evs, p) ==
    LET open == OpenGroups(evs, p) IN
    IF open = {} THEN Val(evs[p].EndName)
    ELSE LET g == evs[CHOOSE q \in open : \A o \in open : o <= q] IN
         IF IsNone(g.BeginName) THEN Val(evs[p].EndName)
         ELSE Val(g.BeginName) \o " " \o Val(evs[p].EndName)

\* The Works of a catalog that carry a code and an EndName, in document order
RECURSIVE NamedWorks(_, _)
NamedWorks(evs, p) ==
    IF p = 0 THEN <<>>
    ELSE IF /\ evs[p].tag = "Work"
            /\ evs[p].Code \notin {None, Some("  ")}
            /\ evs[p].EndName \notin {None, Some("  ")}
         THEN Append(NamedWorks(evs, p - 1), p)
         ELSE NamedWorks(evs, p - 1)

\* C23: the tuples emitted for a works catalog are, in document order, one per
\* Work that has a code and an EndName (the others are skipped), each named
\* with the BeginName of the innermost NameGroup open at the Work, a space
\* and the EndName, or with the EndName alone when that group has no
\* BeginName or no group is open.
C23_WorkNameFromInnermostGroup ==
    page.op = "parse" =>
        LET works == NamedWorks(page.events, Len(page.events)) IN
        /\ Len(page.out) = Len(works)
        /\ \A k \in 1..Len(works) :
              /\ page.out[k][1] = Val(page.events[works[k]].Code)
              /\ page.out[k][2] = WorkName(page.events, works[k])
              /\ page.out[k][4] = "work"

\* C23 witness: an outer group B1, an inner group B2 with a Work, and a
\* Work after the inner group has closed.
C23_Witness ==
    /\ page.op = "parse"
    /\ Len(page.events) = 5
    /\ page.events[1].tag = "NameGroup" /\ page.events[1].BeginName = Some("B1")
    /\ page.events[2].tag = "NameGroup" /\ page.events[2].event = "start"
    /\ page.events[2].BeginName = Some("B2")
    /\ page.events[3].tag = "Work" /\ page.events[3].Code = Some("c1")
    /\ page.events[3].EndName = Some("e")
    /\ page.events[4].tag = "NameGroup" /\ page.events[4].event = "end"
    /\ page.events[5].tag = "Work" /\ page.events[5].Code = Some("c1")
    /\ page.events[5].EndName = Some("e")
    /\ page.out = <<<<"c1", "B2 e", Some("m"), "work">>, <<"c1", "B1 e", Some("m"), "work">>>>


\* The payload's row_idx values are exactly 0..n-1, each once, for a session
\* of n rows.
CoversPositions(rows, n) ==
    /\ Len(rows) = n
    /\ {rows[j].row_idx : j \in 1..Len(rows)} = 0..(n - 1)

\* C24: when the payload's row_idx values are exactly 0..n-1, in any order,
\* and the session has n rows, the label of the payload row with row_idx i is
\* inserted on the session's i-th row in ascending id order, which stores the
\* caption submitted at position i.
C24_LabelOnRowOfPosition ==
    \A r \in Reqs :
        ( /\ req[r].pc \in {"close_session", "commit"}
          /\ CoversPositions(req[r].rows, Len(req[r].row_ids)) )
        => /\ Len(req[r].inserted) = Len(req[r].rows)
           /\ \A j \in 1..Len(req[r].rows) :
                 LET i == req[r].rows[j].row_idx
                     row_id == req[r].row_ids[i + 1] IN
                 /\ req[r].inserted[j].row_id = row_id
                 /\ req[r].inserted[j].label = StoredLabel(req[r].rows[j])
                 /\ req[r].inserted[j].selected_item_id = req[r].rows[j].selected_item_id
                 /\ feedback_rows[row_id].caption = review.captions[i + 1]

\* C24 witness: a two-row payload sent in the order row_idx 1, row_idx 0 with
\* different decisions; the label of the first payload row is on the second
\* row of the session.
C24_Witness ==
    /\ req[1].pc = "commit"
    /\ Len(req[1].rows) = 2
    /\ req[1].rows[1].row_idx = 1 /\ req[1].rows[2].row_idx = 0
    /\ StoredLabel(req[1].rows[1]) # StoredLabel(req[1].rows[2])
    /\ Len(req[1].row_ids) = 2
    /\ Len(req[1].inserted) = 2
    /\ req[1].inserted[1].row_id = req[1].row_ids[2]
    /\ feedback_rows[req[1].inserted[1].row_id].caption = "b"


\* C25: a commit on session S changes only the labels of S's rows, the
\* is_trusted and created_by of S's rows and the status of S: every label it
\* inserts is on a row of S, and the candidates, the items and the rows,
\* labels and status of every other session stay as they were.
C25_CommitFrame ==
    [][ \A r \in Reqs :
          Commits(r) =>
              LET S == req[r].session_id
                  own == {i \in 1..Len(feedback_rows) : feedback_rows[i].session_id = S}
                  others == (1..Len(feedback_rows)) \ own IN
              /\ \A j \in 1..Len(req[r].inserted) : req[r].inserted[j].row_id \in own
              /\ LabelsOn(feedback_labels', others) = LabelsOn(feedback_labels, others)
              /\ feedback_candidates' = feedback_candidates
              /\ items' = items
              /\ Len(feedback_rows') = Len(feedback_rows)
              /\ \A i \in others : feedback_rows'[i] = feedback_rows[i]
              /\ \A i \in own :
                    /\ feedback_rows'[i].session_id = feedback_rows[i].session_id
                    /\ feedback_rows'[i].caption = feedback_rows[i].caption
              /\ Len(feedback_sessions') = Len(feedback_sessions)
              /\ \A sid \in (1..Len(feedback_sessions)) \ {S} :
                    feedback_sessions'[sid] = feedback_sessions[sid] ]_vars

\* C25 witness: both sessions were committed, by different users; each has
\* its own labels and the candidates of both are in place.
C25_Witness ==
    /\ Len(feedback_sessions) = 2
    /\ req[1].result = "ok" /\ req[2].result = "ok"
    /\ req[1].session_id # req[2].session_id
    /\ \A sid \in {1, 2} :
          /\ feedback_sessions[sid].status = "closed"
          /\ LabelsOn(feedback_labels, SessionRowIds(sid)) # <<>>
          /\ \E i \in 1..Len(feedback_candidates) :
                feedback_candidates[i].row_id \in SessionRowIds(sid)

\* C26 (as claimed): of two commits on the same open session at most one
\* succeeds, and no row carries labels of both.
C26_OneCommitWins ==
    /\ ~( /\ req[1].result = "ok" /\ req[2].result = "ok"
          /\ req[1].session_id = req[2].session_id )
    /\ \A i, j \in 1..Len(feedback_labels) :
          feedback_labels[i].row_id = feedback_labels[j].row_id =>
              feedback_labels[i].created_by = feedback_labels[j].created_by


\* C27 (as claimed): after a successful commit every row of the session has
\* at most one label, whatever row_idx values the payload carried.
C27_AtMostOneLabelPerRow ==
    \A r \in Reqs :
        req[r].result = "ok" =>
            \A i, j \in 1..Len(feedback_labels) :
                ( /\ feedback_labels[i].row_id = feedback_labels[j].row_id
                  /\ feedback_rows[feedback_labels[i].row_id].session_id = req[r].session_id )
                => i = j


\* C28 (as claimed): the sheet returned by a successful commit has one data
\* row per label the commit stored, and the Label of each data row is the
\* label stored for that payload row.
C28_SheetShowsStoredLabels ==
    [][ \A r \in Reqs :
          Commits(r) =>
              /\ page'.op = "export"
              /\ Len(page'.xlsx) = Len(req[r].inserted)
              /\ \A j \in 1..Len(req[r].inserted) :
                    j <= Len(page'.xlsx) =>
                        page'.xlsx[j].Label = req[r].inserted[j].label ]_vars


\* C29 (as claimed): the row_idx the page of a stored session gives a row is
\* the row's 0-based position among the session's rows in ascending id order,
\* the position persist_commit maps a payload row_idx back from: the caption
\* displayed with row_idx i is the caption of the i-th row by id.
C29_PageRowIdxIsIdOrder ==
    (page.op = "table" /\ page.result = "ok") =>
        LET row_ids == RowIdsOf(feedback_rows, page.session_id) IN
        /\ Len(page.view_rows) = Len(row_ids)
        /\ \A idx \in 1..Len(page.view_rows) :
              page.view_rows[idx].caption =
                  feedback_rows[row_ids[page.view_rows[idx].row_idx + 1]].caption


\* The item ids with an integer id in one top-K list.
TopkItems(found) == {Val(found[k].id) : k \in {x \in 1..Len(found) : ~IsNone(found[x].id)}}

\* C30 (as claimed): whether the payload numbers its rows from 0 or from 1,
\* a commit without session_id puts the label of the i-th payload row and the
\* candidates of the i-th top-K list on the row of the i-th caption, and on
\* no other row.
C30_ZeroOrOneBased ==
    (page.op = "commit_new" /\ page.result = "ok") =>
        LET row_ids == RowIdsOf(feedback_rows, page.session_id) IN
        /\ Len(row_ids) = Len(page.rows)
        /\ \A i \in 1..Len(page.rows) :
              /\ feedback_rows[row_ids[i]].caption = page.rows[i].caption
              /\ LabelsOn(feedback_labels, {row_ids[i]}) # <<>>
              /\ \A j \in 1..Len(feedback_labels) :
                    feedback_labels[j].row_id = row_ids[i] =>
                        feedback_labels[j].label = StoredLabel(page.rows[i])
              /\ {feedback_candidates[c].item_id :
                     c \in {x \in 1..Len(feedback_candidates) :
                              feedback_candidates[x].row_id = row_ids[i]}}
                    = TopkItems(page.topk[i])

====
